---- MODULE Spec2Model ----
(***************************************************************************)
(* Storyboard generation pipeline of the scripto server:                   *)
(*   api/storyboard_handler.py   generate_storyboard, _check_user_limits,  *)
(*                               _generate_frame_images                    *)
(*   core/ai/ai_services.py      DeepSeekService, DALLEService             *)
(*   core/storage/blob_storage.py BlobStorageService                       *)
(*   utils/helpers.py            error_handler                             *)
(*                                                                         *)
(* Four specifications share the module:                                   *)
(*   SpecImage   one call of DALLEService.generate_image                   *)
(*   SpecParse   one call of DeepSeekService._parse_response               *)
(*   SpecRender  one call of _generate_frame_images (thread pool fan-out)  *)
(*   Spec        the generateStoryboard endpoint against the user store    *)
(* Remote services (text model, image model, blob store, database) are     *)
(* the environment: each of their answers is a nondeterministic choice.    *)
(***************************************************************************)
EXTENDS Integers, Sequences, FiniteSets, TLC

VARIABLES
    gi_pc,          \* SpecImage: "ready" before the call, "done" after it
    gi_args,        \* SpecImage: arguments and environment script of the call
    gi_result       \* SpecImage: outcome of generate_image

VARIABLES
    pr_pc,          \* SpecParse: "ready" before the call, "done" after it
    pr_content,     \* SpecParse: message content returned by the text model
    pr_result       \* SpecParse: outcome of _parse_response

VARIABLES
    rn_pc,          \* SpecRender: position of the thread running _generate_frame_images
    rn_request,     \* SpecRender: the StoryboardRequest
    rn_outline,     \* SpecRender: the StoryboardResponse of the text model
    rn_future,      \* SpecRender: per frame index, the state of its future
    rn_results,     \* SpecRender: the results dict, in insertion order
    rn_ret          \* SpecRender: the list returned

VARIABLES
    db_user,        \* Spec: the row of the users table for UserId, None when absent
    hs,             \* Spec: the running invocation of generate_storyboard: its
                    \* position, its local variables and the calls it has made
    arrived         \* Spec: number of requests received so far

VARIABLES
    bp_pc,          \* SpecPrompt: "ready" before the call, "done" after it
    bp_args,        \* SpecPrompt: the arguments of build_image_prompt
    bp_prompt       \* SpecPrompt: the prompt returned

VARIABLES
    rc_db,          \* SpecRace: the row of the users table for UserId
    rc_h            \* SpecRace: per overlapping invocation of generate_storyboard,
                    \* its position and what it has read, chosen and written

VARIABLES
    fo_blob_storage, \* SpecFanOut: the module global _blob_storage of blob_storage.py
    fo_instances,    \* SpecFanOut: the BlobStorageService instances constructed so far
    fo_w,            \* SpecFanOut: per frame worker, its position and local variables
    fo_uploads,      \* SpecFanOut: the upload_blob calls the container received, in order
    fo_access        \* SpecFanOut: the variables the workers have read or written

gi_vars == <<gi_pc, gi_args, gi_result>>

hs_vars == <<db_user, hs, arrived>>

rn_vars == <<rn_pc, rn_request, rn_outline, rn_future, rn_results, rn_ret>>

pr_vars == <<pr_pc, pr_content, pr_result>>

bp_vars == <<bp_pc, bp_args, bp_prompt>>

rc_vars == <<rc_db, rc_h>>

fo_vars == <<fo_blob_storage, fo_instances, fo_w, fo_uploads, fo_access>>

vars == <<gi_pc, gi_args, gi_result, pr_pc, pr_content, pr_result,
          rn_pc, rn_request, rn_outline, rn_future, rn_results, rn_ret,
          db_user, hs, arrived,
          bp_pc, bp_args, bp_prompt,
          rc_db, rc_h,
          fo_blob_storage, fo_instances, fo_w, fo_uploads, fo_access>>

----------------------------------------------------------------------------
(* Python values *)

\* None and optional values: <<>> is None, <<v>> is the value v
None == <<>>

Some(v) == <<v>>

IsNone(o) == o = <<>>

----------------------------------------------------------------------------
(* config/settings.py *)

DAILY_USAGE_LIMIT == 3

MAX_RETRIES == 3

PLACEHOLDER_IMAGE_URL ==
    [kind |-> "placeholder",
     name |-> "https://via.placeholder.com/1792x1024/cccccc/333333?text=Image+Generation+Failed"]

----------------------------------------------------------------------------
(* models/__init__.py: APIError and its subclasses *)

APIError(message) == [class |-> "APIError", status_code |-> 500, message |-> message]

ValidationError(message) == [class |-> "ValidationError", status_code |-> 400, message |-> message]

NotFoundError(message) == [class |-> "NotFoundError", status_code |-> 404, message |-> message]

RateLimitError(message) == [class |-> "RateLimitError", status_code |-> 429, message |-> message]

\* a Python exception that is not an APIError
PyException(message) == [class |-> "Exception", status_code |-> 0, message |-> message]

IsAPIError(e) == e.class \in {"APIError", "ValidationError", "NotFoundError", "RateLimitError"}

----------------------------------------------------------------------------
(* core/storage/blob_storage.py *)

\* str.endswith
EndsWith(text, suffix) ==
    /\ Len(text) >= Len(suffix)
    /\ SubSeq(text, Len(text) - Len(suffix) + 1, Len(text)) = suffix

\* what the artifact store does with one persist request
StoreOutcomes == {"ok", "construct_fail", "download_timeout", "download_fail", "upload_fail"}

Returned(v) == [kind |-> "return", value |-> v, error |-> PyException("")]

Raised(e) == [kind |-> "raise", value |-> [kind |-> "none", name |-> ""], error |-> e]

\* BlobStorageService.upload_image_from_url: the name defaults to a fresh
\* uuid, the image is downloaded and uploaded, every failure is re-raised as
\* a plain Exception
upload_image_from_url(image_url, file_name, outcome) ==
    LET name == IF IsNone(file_name) \/ file_name = Some("") THEN "uuid4.png"
                ELSE IF EndsWith(file_name[1], ".png") \/ EndsWith(file_name[1], ".jpg")
                        \/ EndsWith(file_name[1], ".jpeg")
                     THEN file_name[1]
                     ELSE file_name[1] \o ".png"
    IN  CASE outcome = "ok" -> Returned([kind |-> "blob", name |-> name])
          [] outcome = "download_timeout" -> Raised(PyException("Image download timed out"))
          [] outcome = "download_fail" -> Raised(PyException("Failed to download image"))
          [] OTHER -> Raised(PyException("Failed to upload image"))

\* get_blob_storage() followed by upload_image_from_url, as generate_image
\* calls them inside its inner try block
persist_image(image_url, file_name, outcome) ==
    IF outcome = "construct_fail"
    THEN Raised(PyException("AzureWebJobsStorage environment variable not set"))
    ELSE upload_image_from_url(image_url, file_name, outcome)

----------------------------------------------------------------------------
(* core/ai/ai_services.py: DALLEService.generate_image *)

\* what one attempt meets: the image model answers ("ok"), the model signals
\* a rate limit, the call fails otherwise, or the client cannot be built
ImageOutcomes == {"ok", "rate_limit", "error", "client_error"}

\* a test that recognises no error as a rate limit
IsRateLimitSignal_never(outcome) == FALSE

\* "rate limit" in str(e).lower() or "429" in str(e)
IsRateLimitSignal(outcome) == outcome = "rate_limit"

\* the attempt reached client.images.generate
ReachesImageModel(outcome) == outcome # "client_error"

\* the short-lived URL the image model returns for a prompt
TempImageUrl(image_prompt) == [kind |-> "temp", name |-> "https://dalle/" \o image_prompt]

\* a file name that does not carry the frame number
BlobFileName_story_only(story_id, frame_number) ==
    IF ~IsNone(story_id) /\ ~IsNone(frame_number)
    THEN Some("story_" \o story_id[1] \o ".png")
    ELSE None

\* file_name = f"story_{story_id}_frame_{frame_number}.png" when both are given
BlobFileName(story_id, frame_number) ==
    IF ~IsNone(story_id) /\ ~IsNone(frame_number)
    THEN Some("story_" \o story_id[1] \o "_frame_" \o ToString(frame_number[1]) \o ".png")
    ELSE None

\* a fallback that gives the frame up instead of keeping the model's URL
persist_or_placeholder(temp_image_url, file_name, outcome) ==
    LET stored == persist_image(temp_image_url, file_name, outcome)
    IN  IF stored.kind = "return" THEN Returned(stored.value)
        ELSE Returned(PLACEHOLDER_IMAGE_URL)

\* the inner try block of generate_image: the permanent URL, or the
\* temporary URL when anything in the upload raises
persist_or_fallback(temp_image_url, file_name, outcome) ==
    LET stored == persist_image(temp_image_url, file_name, outcome)
    IN  IF stored.kind = "return" THEN Returned(stored.value)
        ELSE Returned(temp_image_url)

\* wait_time = (attempt + 1) * 60
BASE_DELAY == 60

\* a backoff that waits the base delay before every retry
WaitTime_constant(attempt) == BASE_DELAY

WaitTime(attempt) == (attempt + 1) * BASE_DELAY

RECURSIVE generate_image_from(_, _, _, _)
\* the body of "for attempt in range(Config.MAX_RETRIES)" from the given attempt on;
\* script.img[attempt + 1] is what that attempt meets, script.store what the
\* artifact store does; acc counts the image model calls and the sleeps
generate_image_from(attempt, script, args, acc) ==
    IF attempt >= MAX_RETRIES
    THEN [acc EXCEPT !.out = Raised(APIError("Failed to generate image after all retry attempts"))]
    ELSE LET outcome == script.img[attempt + 1]
             acc1 == IF ReachesImageModel(outcome)
                     THEN [acc EXCEPT !.calls = @ + 1] ELSE acc
         IN  IF outcome = "ok"
             THEN LET temp_image_url == TempImageUrl(args.image_prompt)
                      file_name == BlobFileName(args.story_id, args.frame_number)
                  IN  [acc1 EXCEPT !.persists = @ + 1,
                                   !.out = persist_or_fallback(temp_image_url, file_name,
                                                               script.store)]
             ELSE IF IsRateLimitSignal(outcome)
                  THEN IF attempt < MAX_RETRIES - 1
                       THEN generate_image_from(attempt + 1, script, args,
                                [acc1 EXCEPT !.sleeps = Append(@, WaitTime(attempt))])
                       ELSE [acc1 EXCEPT !.out = Raised(RateLimitError("Rate limit exceeded"))]
                  ELSE IF attempt = MAX_RETRIES - 1
                       THEN [acc1 EXCEPT !.out = Raised(APIError("Image generation failed"))]
                       ELSE generate_image_from(attempt + 1, script, args, acc1)

NoOutcome == Raised(PyException("not called"))

generate_image(script, args) ==
    generate_image_from(0, script, args,
        [calls |-> 0, persists |-> 0, sleeps |-> <<>>, out |-> NoOutcome])

\* the answers the environment can give to one generate_image call
Scripts == [img : [1..MAX_RETRIES -> ImageOutcomes], store : StoreOutcomes]

----------------------------------------------------------------------------
(* core/ai/ai_services.py: DeepSeekService._parse_response *)

\* The content of the text model's message is a sequence of tokens.
\* "FENCE_JSON" and "FENCE" are the markdown fences with and without the
\* json tag, "{" and "}" the braces of the top-level JSON object, "NL" a line
\* break, "x"
\* any text that is not JSON, and a member token stands for one complete
\* "key": value pair of the object (separators included).
FenceTokens == {"FENCE_JSON", "FENCE"}

\* "frames" member tokens: "framesK" is a list of K frame objects,
\* "framesBad" a list with an element that is not an object
MaxOutlineFrames == 2

MaxTokenFrames == IF MaxOutlineFrames > 2 THEN MaxOutlineFrames ELSE 2

FramesToken(k) == "frames" \o ToString(k)

MemberTokens == {"title", "framesBad"} \cup {FramesToken(k) : k \in 0..MaxTokenFrames}

EmptyText == ""

\* frame objects: with all seven keys, or with "description" only
FrameKeys == {"description", "detailedDescription", "dialogue", "actionNote",
              "cameraAngle", "characterDetails", "environmentDetails"}

FrameDataRich(k) ==
    [isdict |-> TRUE, fields |-> [key \in FrameKeys |-> key \o " of frame " \o ToString(k)]]

FrameDataSparse(k) ==
    [isdict |-> TRUE,
     fields |-> [key \in {"description"} |-> key \o " of frame " \o ToString(k)]]

\* a list element that is not an object (frame_data.get raises)
FrameDataNotDict == [isdict |-> FALSE, fields |-> [key \in {} |-> ""]]

MemberKey(tok) == IF tok = "title" THEN "title" ELSE "frames"

MemberValue(tok) ==
    CASE tok = "title" -> "A Robot Paints"
      [] tok = "framesBad" -> <<FrameDataRich(1), FrameDataNotDict>>
      [] OTHER -> LET count == CHOOSE k \in 0..MaxTokenFrames : FramesToken(k) = tok
                  IN  [k \in 1..count |-> IF k = 1 THEN FrameDataRich(k)
                                                  ELSE FrameDataSparse(k)]

\* dict.get(key, default)
Get(d, key, default) == IF key \in DOMAIN d THEN d[key] ELSE default

\* str.find / str.rfind + 1 in 1-based positions: 0 when absent
Find(content, tok) ==
    IF \E i \in 1..Len(content) : content[i] = tok
    THEN CHOOSE i \in 1..Len(content) :
            content[i] = tok /\ \A j \in 1..(i - 1) : content[j] # tok
    ELSE 0

RFind(content, tok) ==
    IF \E i \in 1..Len(content) : content[i] = tok
    THEN CHOOSE i \in 1..Len(content) :
            content[i] = tok /\ \A j \in (i + 1)..Len(content) : content[j] # tok
    ELSE 0

RECURSIVE SplitLines(_)
\* content.split(NL)
SplitLines(content) ==
    LET nl == Find(content, "NL")
    IN  IF nl = 0 THEN <<content>>
        ELSE <<SubSeq(content, 1, nl - 1)>> \o SplitLines(SubSeq(content, nl + 1, Len(content)))

RECURSIVE JoinLines(_)
\* NL.join(lines)
JoinLines(lines) ==
    IF Len(lines) = 0 THEN <<>>
    ELSE IF Len(lines) = 1 THEN lines[1]
    ELSE lines[1] \o <<"NL">> \o JoinLines(Tail(lines))

RECURSIVE ExtractJsonLines(_, _, _, _)
\* the loop over the lines of an untagged fenced block: collect from the first line that
\* starts with "{" up to the first collected line that ends with "}"
ExtractJsonLines(lines, k, in_json, json_lines) ==
    IF k > Len(lines) THEN json_lines
    ELSE LET line == lines[k]
             in_json1 == in_json \/ (Len(line) > 0 /\ line[1] = "{")
             json_lines1 == IF in_json1 THEN Append(json_lines, line) ELSE json_lines
         IN  IF Len(line) > 0 /\ line[Len(line)] = "}" /\ in_json1
             THEN json_lines1
             ELSE ExtractJsonLines(lines, k + 1, in_json1, json_lines1)

\* the code-fence handling of lines 89-108
CleanContent(content) ==
    IF Len(content) > 0 /\ content[1] = "FENCE_JSON"
    THEN LET start_index == Find(content, "{")
             end_index == RFind(content, "}")
         IN  IF start_index # 0 /\ end_index # 0
             THEN Returned(SubSeq(content, start_index, end_index))
             ELSE Raised(PyException("Could not extract JSON from markdown code block"))
    ELSE IF Len(content) > 0 /\ content[1] = "FENCE"
    THEN Returned(JoinLines(ExtractJsonLines(SplitLines(content), 1, FALSE, <<>>)))
    ELSE Returned(content)

\* json.loads: white space is skipped, the text must be one object
json_loads(content) ==
    LET toks == SelectSeq(content, LAMBDA t : t # "NL")
        n == Len(toks)
    IN  IF /\ n >= 2
           /\ toks[1] = "{"
           /\ toks[n] = "}"
           /\ \A i \in 2..(n - 1) : toks[i] \in MemberTokens
        THEN LET lastOf(key) ==
                     CHOOSE i \in 2..(n - 1) :
                        /\ MemberKey(toks[i]) = key
                        /\ \A j \in (i + 1)..(n - 1) : MemberKey(toks[j]) # key
                 keys == {MemberKey(toks[i]) : i \in 2..(n - 1)}
             IN  Returned([key \in keys |-> MemberValue(toks[lastOf(key)])])
        ELSE Raised(PyException("JSONDecodeError"))

\* StoryFrame(...) of lines 119-127
StoryFrameOf(frame_data) ==
    LET f == frame_data.fields
    IN  [description |-> Get(f, "description", EmptyText),
         detailed_description |-> Get(f, "detailedDescription", Get(f, "description", EmptyText)),
         dialogue |-> Get(f, "dialogue", EmptyText),
         action_note |-> Get(f, "actionNote", EmptyText),
         camera_angle |-> Get(f, "cameraAngle", EmptyText),
         character_details |-> Get(f, "characterDetails", EmptyText),
         environment_details |-> Get(f, "environmentDetails", EmptyText)]

StoryboardResponse(title, frames) == [title |-> title, frames |-> frames]

\* the try block of _parse_response; None content has no startswith
parse_response_try(content) ==
    IF IsNone(content) THEN Raised(PyException("AttributeError"))
    ELSE LET cleaned == CleanContent(content[1])
         IN  IF cleaned.kind = "raise" THEN cleaned
             ELSE LET loaded == json_loads(cleaned.value)
                  IN  IF loaded.kind = "raise" THEN loaded
                      ELSE LET parsed_response == loaded.value
                           IN  IF "title" \notin DOMAIN parsed_response
                                  \/ "frames" \notin DOMAIN parsed_response
                               THEN Raised(PyException("Invalid response structure"))
                               ELSE LET frames_in == parsed_response["frames"]
                                    IN  IF \E i \in 1..Len(frames_in) : ~frames_in[i].isdict
                                        THEN Raised(PyException("AttributeError"))
                                        ELSE Returned(StoryboardResponse(
                                                Get(parsed_response, "title", EmptyText),
                                                [i \in 1..Len(frames_in) |-> StoryFrameOf(frames_in[i])]))

\* a parser without the except clause
parse_response_propagating(content) == parse_response_try(content)

\* except Exception: return StoryboardResponse(title="", frames=[])
parse_response(content) ==
    LET r == parse_response_try(content)
    IN  IF r.kind = "raise" THEN Returned(StoryboardResponse(EmptyText, <<>>)) ELSE r

----------------------------------------------------------------------------
(* core/ai/ai_services.py: DALLEService.build_image_prompt *)

MAX_PROMPT_LENGTH == 1000

\* a slice that keeps the whole text
Slice_whole(text, n) == text

\* text[:n]
Slice(text, n) == SubSeq(text, 1, IF Len(text) < n THEN Len(text) ELSE n)

build_image_prompt(description, visual_style, mood, frame_number, total_frames, story_context, character_details, environment_details) ==
    LET base_prompt == "Digital illustration of a scene"
        character_consistency ==
            IF character_details # "" THEN ". Characters: " \o character_details ELSE ""
        environment_consistency ==
            IF environment_details # "" THEN ". Setting: " \o environment_details ELSE ""
        style_instructions == ". Art style: " \o visual_style \o " style"
        mood_instructions == ". Atmosphere: " \o mood \o " mood with appropriate lighting"
        scene_description == ". Scene: " \o description
        quality_instructions ==
            ". High quality digital art, clean composition, no UI elements, no borders, "
            \o "no frames, no text overlays, no storyboard panels, "
            \o "just the pure scene illustration"
        full_prompt == base_prompt \o scene_description \o character_consistency
                       \o environment_consistency \o style_instructions
                       \o mood_instructions \o quality_instructions
        essential_parts == base_prompt \o scene_description \o character_consistency
                           \o style_instructions \o quality_instructions
    IN  IF Len(full_prompt) > MAX_PROMPT_LENGTH
        THEN IF Len(essential_parts) <= MAX_PROMPT_LENGTH
             THEN essential_parts
             ELSE Slice(full_prompt, MAX_PROMPT_LENGTH)
        ELSE full_prompt

----------------------------------------------------------------------------
(* api/storyboard_handler.py: _generate_frame_images *)

MAX_PARALLEL_IMAGES == 3

CHARACTER_REFERENCE_LENGTH == 100

\* str(uuid.uuid4())[:8]
StoryId == "a1b2c3d4"

\* lines 126-129: frame 1's character_details, "" when there is none
MainCharacterReference(storyboard_response) ==
    IF Len(storyboard_response.frames) > 0
       /\ storyboard_response.frames[1].character_details # ""
    THEN storyboard_response.frames[1].character_details
    ELSE ""

\* a frame_result that carries dialogue and actionNote whatever the flags
FrameResult_ungated(frame, image_url, storyboard_request) ==
    [key \in {"description", "imageUrl", "dialogue", "actionNote"} |->
        CASE key = "description" -> frame.description
          [] key = "imageUrl" -> image_url
          [] key = "dialogue" -> frame.dialogue
          [] OTHER -> frame.action_note]

\* a frame_result that loses the image URL when generation failed
FrameResult_unset(frame, image_url, storyboard_request) ==
    LET keys == {"description", "imageUrl"}
                \cup (IF storyboard_request.include_dialogue THEN {"dialogue"} ELSE {})
                \cup (IF storyboard_request.include_action_notes THEN {"actionNote"} ELSE {})
    IN  [key \in keys |->
            CASE key = "description" -> frame.description
              [] key = "imageUrl" -> IF image_url = PLACEHOLDER_IMAGE_URL
                                     THEN [kind |-> "none", name |-> ""] ELSE image_url
              [] key = "dialogue" -> frame.dialogue
              [] OTHER -> frame.action_note]

\* the frame_result dict of lines 157-165 and 171-178
FrameResult(frame, image_url, storyboard_request) ==
    LET keys == {"description", "imageUrl"}
                \cup (IF storyboard_request.include_dialogue THEN {"dialogue"} ELSE {})
                \cup (IF storyboard_request.include_action_notes THEN {"actionNote"} ELSE {})
    IN  [key \in keys |->
            CASE key = "description" -> frame.description
              [] key = "imageUrl" -> image_url
              [] key = "dialogue" -> frame.dialogue
              [] OTHER -> frame.action_note]

\* generate_single_frame((i, frame)) against the answers in script: the
\* returned pair (i, frame_result); failed records that generate_image raised
generate_single_frame(i, frame, script, storyboard_response, storyboard_request) ==
    LET total_frames == Len(storyboard_response.frames)
        main_character_reference == MainCharacterReference(storyboard_response)
        enhanced_character_details ==
            IF i > 1 /\ main_character_reference # ""
            THEN "Same as frame 1: "
                 \o Slice(main_character_reference, CHARACTER_REFERENCE_LENGTH)
            ELSE frame.character_details
        image_prompt ==
            build_image_prompt(
                IF frame.detailed_description # "" THEN frame.detailed_description
                ELSE frame.description,
                storyboard_request.visual_style, storyboard_request.mood, i, total_frames,
                storyboard_response.title, enhanced_character_details,
                frame.environment_details)
        generated == generate_image(script, [image_prompt |-> image_prompt,
                                             story_id |-> Some(StoryId),
                                             frame_number |-> Some(i)])
    IN  IF generated.out.kind = "return"
        THEN [idx |-> i, failed |-> FALSE,
              image_calls |-> generated.calls, uploads |-> generated.persists,
              frame_result |-> FrameResult(frame, generated.out.value, storyboard_request)]
        ELSE [idx |-> i, failed |-> TRUE,
              image_calls |-> generated.calls, uploads |-> generated.persists,
              frame_result |-> FrameResult(frame, PLACEHOLDER_IMAGE_URL, storyboard_request)]

\* Python dict in insertion order: a sequence of <<key, value>> pairs
DictHas(dict, key) == \E n \in 1..Len(dict) : dict[n][1] = key

DictGet(dict, key) == dict[CHOOSE n \in 1..Len(dict) : dict[n][1] = key][2]

DictSet(dict, key, value) ==
    IF DictHas(dict, key)
    THEN [n \in 1..Len(dict) |-> IF dict[n][1] = key THEN <<key, value>> ELSE dict[n]]
    ELSE Append(dict, <<key, value>>)

DictValues(dict) == [n \in 1..Len(dict) |-> dict[n][2]]

\* a return statement that lists the dict in insertion order
AssembleInInsertionOrder(results, total_frames) == DictValues(results)

\* [results[i] for i in range(1, total_frames + 1)]
AssembleInOrder(results, total_frames) == [i \in 1..total_frames |-> DictGet(results, i)]

----------------------------------------------------------------------------
(* core/ai/ai_services.py: DeepSeekService.generate_storyboard_data *)

\* what client.chat.completions.create does (endpoint and key are configured):
\* it raises, it returns a response without choices, or it returns a content
TextAnswerKinds == {"transport_error", "empty_choices", "content"}

\* str(e) of the exception the try block meets
TextErrorText(answer) ==
    IF answer.kind = "transport_error" THEN "Connection error." ELSE "list index out of range"

\* a variant whose except clause returns an empty outline
generate_storyboard_data_lenient(answer) ==
    [calls |-> 1,
     out |-> IF answer.kind = "content" THEN parse_response(answer.content)
             ELSE Returned(StoryboardResponse("", <<>>))]

\* one create call inside try; every exception becomes APIError;
\* _parse_response handles the content
generate_storyboard_data(answer) ==
    [calls |-> 1,
     out |-> IF answer.kind = "content" THEN parse_response(answer.content)
             ELSE Raised(APIError("Failed to generate storyboard: " \o TextErrorText(answer)))]

----------------------------------------------------------------------------
(* utils/helpers.py *)

create_json_response(data, status_code) == [status_code |-> status_code, body |-> data]

create_error_response(message, status_code) ==
    create_json_response([error |-> message], status_code)

\* a wrapper with one except clause that answers 500 with str(e)
error_handler_flat(e) == create_error_response(e.message, 500)

\* the except clauses of error_handler's wrapper
error_handler(e) ==
    IF IsAPIError(e) THEN create_error_response(e.message, e.status_code)
    ELSE create_error_response("An unexpected error occurred", 500)

\* validate_json_request: get_json raises ValueError or returns the body
validate_json_request(req) ==
    IF req.json = "invalid" THEN Raised(ValidationError("Invalid JSON input"))
    ELSE IF DOMAIN req.data = {} THEN Raised(ValidationError("Request body required"))
    ELSE Returned(req.data)

----------------------------------------------------------------------------
(* models/__init__.py: StoryboardRequest *)

\* the decoded body is a JSON object, a dict with a get method; req.json is
\* "array" when it is a list
IsJsonObject(req) == req.json = "valid"

from_dict(data) ==
    [prompt |-> Get(data, "prompt", ""),
     genre |-> Get(data, "genre", ""),
     visual_style |-> Get(data, "visualStyle", ""),
     mood |-> Get(data, "mood", ""),
     frame_count |-> Get(data, "frameCount", 4),
     camera_angles |-> Get(data, "cameraAngles", <<>>),
     include_dialogue |-> Get(data, "includeDialogue", FALSE),
     include_action_notes |-> Get(data, "includeActionNotes", FALSE),
     user_id |-> Get(data, "userId", None)]

\* a validate that does not look at frame_count
validate_without_frame_count(request) ==
    (IF request.prompt = "" THEN <<"Prompt is required">> ELSE <<>>)
    \o (IF request.genre = "" THEN <<"Genre is required">> ELSE <<>>)
    \o (IF request.visual_style = "" THEN <<"Visual style is required">> ELSE <<>>)
    \o (IF request.mood = "" THEN <<"Mood is required">> ELSE <<>>)
    \o (IF request.camera_angles = <<>> THEN <<"Camera angles are required">> ELSE <<>>)

\* StoryboardRequest.validate: the list of error messages
validate(request) ==
    (IF request.prompt = "" THEN <<"Prompt is required">> ELSE <<>>)
    \o (IF request.genre = "" THEN <<"Genre is required">> ELSE <<>>)
    \o (IF request.visual_style = "" THEN <<"Visual style is required">> ELSE <<>>)
    \o (IF request.mood = "" THEN <<"Mood is required">> ELSE <<>>)
    \o (IF request.frame_count = 0 \/ request.frame_count < 1
        THEN <<"Frame count must be at least 1">> ELSE <<>>)
    \o (IF request.camera_angles = <<>> THEN <<"Camera angles are required">> ELSE <<>>)

RECURSIVE Join(_, _)
\* separator.join(items)
Join(items, separator) ==
    IF Len(items) = 0 THEN ""
    ELSE IF Len(items) = 1 THEN items[1]
    ELSE items[1] \o separator \o Join(Tail(items), separator)

\* "if storyboard_request.user_id": neither None nor ""
HasUserId(request) == ~IsNone(request.user_id) /\ request.user_id # Some("")

----------------------------------------------------------------------------
(* api/storyboard_handler.py: _check_user_limits and generate_storyboard *)

\* date.today().isoformat() and an earlier day
Today == "2026-11-06"

Yesterday == "2026-11-05"

UserId == "u1"

\* what the database does with one query
DbOutcomes == {"ok", "error"}

\* get_user_by_id: the row, None when there is none, or the connector's error
get_user_by_id(row, outcome) ==
    IF outcome = "error" THEN Raised(PyException("mysql.connector.Error"))
    ELSE Returned(row)

\* a test that looks at the is_admin flag only
IsPrivileged_flag_only(user) == user.is_admin

IsPrivileged(user) == user.is_admin \/ user.role \in {"admin", "superadmin"}

\* a try block that compares the count without looking at last_usage_date
check_user_limits_try_any_day(read) ==
    IF read.kind = "raise" THEN read
    ELSE IF IsNone(read.value) THEN Returned(None)
    ELSE LET user == read.value[1]
         IN  IF IsPrivileged(user) THEN Returned(None)
             ELSE IF user.daily_usage_count >= DAILY_USAGE_LIMIT
                  THEN Raised(RateLimitError("Daily usage limit exceeded."))
                  ELSE Returned(None)

\* the try block of _check_user_limits
check_user_limits_try(read) ==
    IF read.kind = "raise" THEN read
    ELSE IF IsNone(read.value) THEN Returned(None)
    ELSE LET user == read.value[1]
         IN  IF IsPrivileged(user) THEN Returned(None)
             ELSE IF user.last_usage_date # Some(Today) THEN Returned(None)
             ELSE IF user.daily_usage_count >= DAILY_USAGE_LIMIT
                  THEN Raised(RateLimitError(
                           "Daily usage limit exceeded. You can create "
                           \o ToString(DAILY_USAGE_LIMIT) \o " storyboards per day."))
                  ELSE Returned(None)

\* a check without the except clause
check_user_limits_propagating(read) == check_user_limits_try(read)

\* _check_user_limits: "except Exception" encloses the whole check, the
\* raise of RateLimitError included
check_user_limits(read) ==
    LET r == check_user_limits_try(read)
    IN  IF r.kind = "raise" THEN Returned(None) ELSE r

RECURSIVE RunWorkers(_, _, _, _)
\* what the workers of frames 1..n return: one
\* generate_single_frame per (i, frame) of enumerate(frames, start=1)
RunWorkers(n, storyboard_response, storyboard_request, scripts) ==
    IF n = 0 THEN <<>>
    ELSE Append(RunWorkers(n - 1, storyboard_response, storyboard_request, scripts),
                generate_single_frame(n, storyboard_response.frames[n], scripts[n],
                                      storyboard_response, storyboard_request))

SumCalls(workers, field) ==
    LET RECURSIVE sum(_)
        sum(n) == IF n = 0 THEN 0 ELSE workers[n][field] + sum(n - 1)
    IN  sum(Len(workers))

\* a variant that renders as many frames as the request asked for
generate_frame_images_requested(storyboard_response, storyboard_request, scripts) ==
    LET outline_frames == Len(storyboard_response.frames)
        total_frames == IF storyboard_request.frame_count < outline_frames
                        THEN storyboard_request.frame_count ELSE outline_frames
        workers == RunWorkers(total_frames, storyboard_response, storyboard_request, scripts)
        results == [i \in 1..total_frames |-> <<workers[i].idx, workers[i].frame_result>>]
    IN  [frames |-> AssembleInOrder(results, total_frames),
         image_calls |-> SumCalls(workers, "image_calls"),
         uploads |-> SumCalls(workers, "uploads")]

\* _generate_frame_images run to its return: worker i meets scripts[i]; the
\* dict is filled with each worker's (idx, frame_result) and read in order
generate_frame_images(storyboard_response, storyboard_request, scripts) ==
    LET total_frames == Len(storyboard_response.frames)
        workers == RunWorkers(total_frames, storyboard_response, storyboard_request, scripts)
        results == [i \in 1..total_frames |-> <<workers[i].idx, workers[i].frame_result>>]
    IN  [frames |-> AssembleInOrder(results, total_frames),
         image_calls |-> SumCalls(workers, "image_calls"),
         uploads |-> SumCalls(workers, "uploads")]

\* the response of lines 58-61 replaced by an error
NoFramesResponse_error(storyboard_response) ==
    create_error_response("No frames generated", 500)

\* lines 58-61
NoFramesResponse(storyboard_response) ==
    create_json_response([title |-> storyboard_response.title, frames |-> <<>>], 200)

\* lines 85-88
StoryboardJson(storyboard_response, generated_frames) ==
    create_json_response([title |-> storyboard_response.title,
                          frames |-> generated_frames], 200)

----------------------------------------------------------------------------
(* The parts of the state a specification does not use stay idle *)

GiIdle ==
    /\ gi_pc = "idle"
    /\ gi_args = [script |-> [img |-> [a \in 1..MAX_RETRIES |-> "ok"], store |-> "ok"],
                  args |-> [image_prompt |-> "", story_id |-> None, frame_number |-> None]]
    /\ gi_result = [calls |-> 0, persists |-> 0, sleeps |-> <<>>, out |-> NoOutcome]

PrIdle ==
    /\ pr_pc = "idle"
    /\ pr_content = None
    /\ pr_result = NoOutcome

RcIdle ==
    /\ rc_db = None
    /\ rc_h = <<>>

FoIdle ==
    /\ fo_blob_storage = None
    /\ fo_instances = {}
    /\ fo_w = <<>>
    /\ fo_uploads = <<>>
    /\ fo_access = {}

BpIdle ==
    /\ bp_pc = "idle"
    /\ bp_args = [description |-> "", visual_style |-> "", mood |-> "",
                  character_details |-> "", environment_details |-> ""]
    /\ bp_prompt = ""

\* the local state of generate_storyboard before a request arrives
NoInvocation ==
    [pc |-> "idle",
     req |-> [json |-> "valid", data |-> [key \in {} |-> ""]],
     storyboard_request |-> None,
     limit_check |-> None,
     text_answer |-> None,
     storyboard_response |-> None,
     generated_frames |-> <<>>,
     usage |-> None,
     usage_log |-> <<>>,
     response |-> None,
     caught |-> None,
     text_calls |-> 0, image_calls |-> 0, uploads |-> 0]

HsIdle ==
    /\ db_user = None
    /\ hs = NoInvocation
    /\ arrived = 0

RnIdle ==
    /\ rn_pc = "idle"
    /\ rn_request = [visual_style |-> "", mood |-> "",
                     include_dialogue |-> FALSE, include_action_notes |-> FALSE]
    /\ rn_outline = StoryboardResponse("", <<>>)
    /\ rn_future = <<>>
    /\ rn_results = <<>>
    /\ rn_ret = <<>>

----------------------------------------------------------------------------
(* SpecImage: one call of generate_image *)

StoryIds == {None, Some("a1b2c3d4")}

FrameNumbers == {None, Some(1), Some(2)}

GiArgs == [image_prompt : {"Digital illustration of a scene"}, story_id : StoryIds,
           frame_number : FrameNumbers]

InitImage ==
    /\ gi_pc = "ready"
    /\ gi_args \in [script : Scripts, args : GiArgs]
    /\ gi_result = [calls |-> 0, persists |-> 0, sleeps |-> <<>>, out |-> NoOutcome]
    /\ PrIdle
    /\ RnIdle
    /\ HsIdle
    /\ BpIdle
    /\ RcIdle
    /\ FoIdle

CallGenerateImage ==
    /\ gi_pc = "ready"
    /\ gi_pc' = "done"
    /\ gi_result' = generate_image(gi_args.script, gi_args.args)
    /\ UNCHANGED <<gi_args, pr_vars, rn_vars, hs_vars, bp_vars, rc_vars, fo_vars>>

NextImage == CallGenerateImage

SpecImage == InitImage /\ [][NextImage]_vars

----------------------------------------------------------------------------
(* SpecParse: one call of _parse_response *)

\* number of tokens between the optional braces of a generated content
MaxBodyLen == 2

RECURSIVE SeqsUpTo(_, _)
SeqsUpTo(S, n) ==
    IF n = 0 THEN {<<>>}
    ELSE LET shorter == SeqsUpTo(S, n - 1)
         IN  shorter \cup {Append(s, x) : s \in shorter, x \in S}

Prefixes == {<<>>, <<"FENCE_JSON", "NL">>, <<"FENCE", "NL">>}

Suffixes == {<<>>, <<"NL", "FENCE">>}

InnerTokens == {"}", "NL", "x", "title", "framesBad", FramesToken(0), FramesToken(2)}

Bodies == {open \o inner \o close : open \in {<<>>, <<"{">>},
                                    inner \in SeqsUpTo(InnerTokens, MaxBodyLen),
                                    close \in {<<>>, <<"}">>}}

Contents == {None} \cup {Some(p \o b \o s) : p \in Prefixes, b \in Bodies, s \in Suffixes}

InitParse ==
    /\ pr_pc = "ready"
    /\ pr_content \in Contents
    /\ pr_result = NoOutcome
    /\ GiIdle
    /\ RnIdle
    /\ HsIdle
    /\ BpIdle
    /\ RcIdle
    /\ FoIdle

CallParseResponse ==
    /\ pr_pc = "ready"
    /\ pr_pc' = "done"
    /\ pr_result' = parse_response(pr_content)
    /\ UNCHANGED <<pr_content, gi_vars, rn_vars, hs_vars, bp_vars, rc_vars, fo_vars>>

NextParse == CallParseResponse

SpecParse == InitParse /\ [][NextParse]_vars

----------------------------------------------------------------------------
(* SpecRender: one call of _generate_frame_images *)

MaxFrames == 4

\* outlines of up to MinFrames frames also come without the optional keys
MinFrames == 2

\* the outline the text model produced: k frames, all with the seven keys or
\* all with "description" only
OutlineOf(m, rich) ==
    StoryboardResponse("A Robot Paints",
        [k \in 1..m |-> StoryFrameOf(IF rich THEN FrameDataRich(k) ELSE FrameDataSparse(k))])

RenderRequests ==
    [visual_style : {"watercolor"}, mood : {"calm"},
     include_dialogue : BOOLEAN, include_action_notes : BOOLEAN]

\* one script for each distinct outcome generate_image can have
RenderScripts ==
    LET probe == [image_prompt |-> "", story_id |-> Some(StoryId), frame_number |-> Some(1)]
        outcomes == {generate_image(s, probe).out : s \in Scripts}
    IN  {CHOOSE s \in Scripts : generate_image(s, probe).out = o : o \in outcomes}

\* raised: the call of generate_single_frame ended with an exception
NoFuture == [state |-> "unsubmitted", failed |-> FALSE, raised |-> FALSE, frame_result |-> <<>>]

InitRender ==
    /\ rn_pc = "submit"
    /\ rn_request \in RenderRequests
    /\ rn_outline \in {OutlineOf(m, TRUE) : m \in 1..MaxFrames}
                      \cup {OutlineOf(m, FALSE) : m \in 1..MinFrames}
    /\ rn_future = [i \in 1..Len(rn_outline.frames) |-> NoFuture]
    /\ rn_results = <<>>
    /\ rn_ret = <<>>
    /\ GiIdle
    /\ PrIdle
    /\ HsIdle
    /\ BpIdle
    /\ RcIdle
    /\ FoIdle

TotalFrames == Len(rn_outline.frames)

InFlight == {i \in 1..TotalFrames : rn_future[i].state = "running"}

\* a pool that starts every queued task at once
PoolHasIdleWorker_unbounded(running) == TRUE

\* ThreadPoolExecutor(max_workers=MAX_PARALLEL_IMAGES): a queued task starts
\* only on one of the pool's threads
PoolHasIdleWorker(running) == Cardinality(running) < MAX_PARALLEL_IMAGES

\* executor.submit(generate_single_frame, task), in the order of frame_tasks
Submit(i) ==
    /\ rn_pc = "submit"
    /\ rn_future[i].state = "unsubmitted"
    /\ \A j \in 1..(i - 1) : rn_future[j].state # "unsubmitted"
    /\ rn_future' = [rn_future EXCEPT ![i].state = "queued"]
    /\ rn_pc' = IF i = TotalFrames THEN "collect" ELSE "submit"
    /\ UNCHANGED <<rn_request, rn_outline, rn_results, rn_ret, gi_vars, pr_vars, hs_vars, bp_vars, rc_vars, fo_vars>>

\* a pool thread takes the oldest task of the work queue
StartFrame(i) ==
    /\ rn_pc \in {"submit", "collect"}
    /\ rn_future[i].state = "queued"
    /\ \A j \in 1..(i - 1) : rn_future[j].state # "queued"
    /\ PoolHasIdleWorker(InFlight)
    /\ rn_future' = [rn_future EXCEPT ![i].state = "running"]
    /\ UNCHANGED <<rn_pc, rn_request, rn_outline, rn_results, rn_ret, gi_vars, pr_vars, hs_vars, bp_vars, rc_vars, fo_vars>>

\* the pool thread runs generate_single_frame to its return: the function
\* returns from its try block or from its "except Exception" block, so the
\* future never holds an exception
FinishFrame(i) ==
    /\ rn_pc \in {"submit", "collect"}
    /\ rn_future[i].state = "running"
    /\ \E script \in RenderScripts :
          LET r == generate_single_frame(i, rn_outline.frames[i], script,
                                         rn_outline, rn_request)
          IN  rn_future' = [rn_future EXCEPT ![i] =
                               [state |-> "done", failed |-> r.failed, raised |-> FALSE,
                                frame_result |-> r.frame_result]]
    /\ UNCHANGED <<rn_pc, rn_request, rn_outline, rn_results, rn_ret, gi_vars, pr_vars, hs_vars, bp_vars, rc_vars, fo_vars>>

\* a loop that stores the results of the successful futures only
Collect_successful_only(i) ==
    /\ rn_pc = "collect"
    /\ rn_future[i].state = "done"
    /\ ~rn_future[i].failed
    /\ ~DictHas(rn_results, i)
    /\ rn_results' = DictSet(rn_results, i, rn_future[i].frame_result)
    /\ UNCHANGED <<rn_pc, rn_request, rn_outline, rn_future, rn_ret, gi_vars, pr_vars, hs_vars, bp_vars, rc_vars, fo_vars>>

\* one iteration of "for future in as_completed(future_to_frame)": the
\* result of the future, or the bare placeholder of lines 201-206 when
\* future.result() raises
Collect(i) ==
    /\ rn_pc = "collect"
    /\ rn_future[i].state = "done"
    /\ ~DictHas(rn_results, i)
    /\ rn_results' = DictSet(rn_results, i,
                             IF rn_future[i].raised
                             THEN [description |-> rn_outline.frames[i].description,
                                   imageUrl |-> PLACEHOLDER_IMAGE_URL]
                             ELSE rn_future[i].frame_result)
    /\ UNCHANGED <<rn_pc, rn_request, rn_outline, rn_future, rn_ret, gi_vars, pr_vars, hs_vars, bp_vars, rc_vars, fo_vars>>

\* every future was yielded: the pool shuts down and the list is returned
ReturnFrames ==
    /\ rn_pc = "collect"
    /\ \A i \in 1..TotalFrames : DictHas(rn_results, i)
    /\ rn_ret' = AssembleInOrder(rn_results, TotalFrames)
    /\ rn_pc' = "returned"
    /\ UNCHANGED <<rn_request, rn_outline, rn_future, rn_results, gi_vars, pr_vars, hs_vars, bp_vars, rc_vars, fo_vars>>

NextRender ==
    \/ \E i \in 1..TotalFrames : Submit(i)
    \/ \E i \in 1..TotalFrames : StartFrame(i)
    \/ \E i \in 1..TotalFrames : FinishFrame(i)
    \/ \E i \in 1..TotalFrames : Collect(i)
    \/ ReturnFrames

SpecRender == InitRender /\ [][NextRender]_vars

\* renders of one request, for outlines of 1..MaxFrames frames
InitRenderFair ==
    /\ InitRender
    /\ rn_request = [visual_style |-> "watercolor", mood |-> "calm",
                     include_dialogue |-> TRUE, include_action_notes |-> FALSE]
    /\ rn_outline \in {OutlineOf(m, TRUE) : m \in 1..MaxFrames}

\* the calling thread runs (submit, as_completed loop, return), an idle pool
\* thread takes the next queued task, and every call of a worker to the image
\* model or the blob store returns or fails (generate_image makes at most
\* MAX_RETRIES attempts, the downloads and uploads have timeouts)
SpecRenderFair ==
    /\ InitRenderFair
    /\ [][NextRender]_vars
    /\ WF_vars(\E i \in 1..TotalFrames : Submit(i))
    /\ WF_vars(\E i \in 1..TotalFrames : StartFrame(i))
    /\ WF_vars(\E i \in 1..TotalFrames : FinishFrame(i))
    /\ WF_vars(\E i \in 1..TotalFrames : Collect(i))
    /\ WF_vars(ReturnFrames)

----------------------------------------------------------------------------
(* SpecPrompt: one call of DALLEService.build_image_prompt, with the texts of
   a frame and of the request as generate_single_frame passes them *)

MaxTextLen == 1200

RECURSIVE Filler(_)
\* a text of n characters
Filler(n) ==
    IF n = 0 THEN ""
    ELSE LET half == Filler(n \div 2)
         IN  half \o half \o (IF n % 2 = 1 THEN "x" ELSE "")

Descriptions ==
    {Filler(n) : n \in {0, 1, 400, 700, MAX_PROMPT_LENGTH, MaxTextLen}}
    \cup {"A knight raises a SWORD"}

CharacterTexts ==
    {Filler(n) : n \in {0, 400, MaxTextLen}} \cup {"Same as frame 1: a knight with a gun"}

EnvironmentTexts ==
    {Filler(n) : n \in {0, 400, MaxTextLen}} \cup {"a castle yard at dawn"}

VisualStyles == {"watercolor", Filler(MaxTextLen)}

InitPrompt ==
    /\ bp_pc = "ready"
    /\ bp_args \in [description : Descriptions, visual_style : VisualStyles,
                    mood : {"calm"}, character_details : CharacterTexts,
                    environment_details : EnvironmentTexts]
    /\ bp_prompt = ""
    /\ GiIdle
    /\ PrIdle
    /\ RnIdle
    /\ HsIdle
    /\ RcIdle
    /\ FoIdle

\* storyboard_handler.py lines 141-150: the call of build_image_prompt
CallBuildImagePrompt ==
    /\ bp_pc = "ready"
    /\ bp_pc' = "done"
    /\ bp_prompt' = build_image_prompt(bp_args.description, bp_args.visual_style,
                                       bp_args.mood, 1, 1, "A Robot Paints",
                                       bp_args.character_details,
                                       bp_args.environment_details)
    /\ UNCHANGED <<bp_args, gi_vars, pr_vars, rn_vars, hs_vars, rc_vars, fo_vars>>

NextPrompt == CallBuildImagePrompt

SpecPrompt == InitPrompt /\ [][NextPrompt]_vars

----------------------------------------------------------------------------
(* Spec: requests to generate_storyboard, one after the other, against the
   users table, the text model, the image model and the blob store *)

MaxRequests == 2

\* the users table holds at most the row of UserId
Users ==
    {[is_admin |-> p[1], role |-> p[2], daily_usage_count |-> n, last_usage_date |-> d] :
        p \in {<<FALSE, "user">>, <<TRUE, "user">>, <<FALSE, "admin">>,
               <<FALSE, "superadmin">>},
        n \in {0, DAILY_USAGE_LIMIT - 1, DAILY_USAGE_LIMIT},
        d \in {None, Some(Yesterday), Some(Today)}}

BaseBody ==
    [prompt |-> "a robot learns to paint", genre |-> "drama", visualStyle |-> "watercolor",
     mood |-> "calm", frameCount |-> 2, cameraAngles |-> <<"wide", "close-up">>]

Without(body, key) == [k \in DOMAIN body \ {key} |-> body[k]]

ValidBodies ==
    {[BaseBody EXCEPT !.frameCount = n] @@ flags @@ user :
        n \in 1..2,
        flags \in {<<>>, [includeDialogue |-> TRUE, includeActionNotes |-> TRUE]},
        user \in {<<>>, [userId |-> Some(UserId)]}}

InvalidBodies ==
    {Without(BaseBody, key) : key \in {"prompt", "genre", "visualStyle", "mood",
                                       "cameraAngles"}}
    \cup {[BaseBody EXCEPT !.frameCount = n] : n \in {0, -1}}
    \cup {[BaseBody EXCEPT !.prompt = ""], [BaseBody EXCEPT !.cameraAngles = <<>>],
          [Without(BaseBody, "genre") EXCEPT !.frameCount = 0] @@ [userId |-> Some(UserId)]}

Requests ==
    {[json |-> "valid", data |-> b] : b \in ValidBodies \cup InvalidBodies}
    \cup {[json |-> "valid", data |-> [key \in {} |-> ""]],
          [json |-> "invalid", data |-> [key \in {} |-> ""]],
          [json |-> "array", data |-> [index \in {"0"} |-> "a robot learns to paint"]]}

\* answers of the text model: failures, and contents that parse to an outline
\* of 0..MaxOutlineFrames frames or do not parse
TextAnswers ==
    {[kind |-> k, content |-> None] : k \in TextAnswerKinds}
    \cup {[kind |-> "content", content |-> Some(<<"{", "title", FramesToken(k), "}">>)] :
             k \in 0..MaxOutlineFrames}
    \cup {[kind |-> "content", content |-> Some(c)] :
             c \in {<<"x">>, <<"{", FramesToken(1), "}">>,
                    <<"FENCE_JSON", "NL", "{", "title", FramesToken(1), "}", "NL", "FENCE">>}}

\* what one frame's worker meets: image and upload succeed; the upload fails;
\* every attempt is rate limited
FrameScripts ==
    {[img |-> [a \in 1..MAX_RETRIES |-> "ok"], store |-> "ok"],
     [img |-> [a \in 1..MAX_RETRIES |-> "ok"], store |-> "upload_fail"],
     [img |-> [a \in 1..MAX_RETRIES |-> "rate_limit"], store |-> "ok"]}

Init ==
    /\ db_user \in {None} \cup {Some(u) : u \in Users}
    /\ hs = NoInvocation
    /\ arrived = 0
    /\ GiIdle
    /\ PrIdle
    /\ RnIdle
    /\ BpIdle
    /\ RcIdle
    /\ FoIdle

\* the wrapper of error_handler returns, with the function's response or with
\* the response for the exception it caught
Respond(h, response) == [h EXCEPT !.pc = "done", !.response = Some(response)]

\* the wrapper caught exception e: its response is that of the except clauses
Fail(h, e) == [Respond(h, error_handler(e)) EXCEPT !.caught = Some(e)]

\* the row a query for user_id finds
RowOf(user_id) == IF user_id = Some(UserId) THEN db_user ELSE None

\* function_app.py routes a request to StoryboardHandler.generate_storyboard
Arrive(req) ==
    /\ hs.pc = "idle"
    /\ arrived < MaxRequests
    /\ arrived' = arrived + 1
    /\ hs' = [NoInvocation EXCEPT !.pc = "validate", !.req = req]
    /\ UNCHANGED <<db_user, gi_vars, pr_vars, rn_vars, bp_vars, rc_vars, fo_vars>>

\* lines 34-40
ValidateRequest ==
    /\ hs.pc = "validate"
    /\ LET req_body == validate_json_request(hs.req)
       IN  IF req_body.kind = "raise"
           THEN hs' = Fail(hs, req_body.error)
           ELSE IF ~IsJsonObject(hs.req)
           THEN hs' = Fail(hs, PyException("'list' object has no attribute 'get'"))
           ELSE LET storyboard_request == from_dict(req_body.value)
                    validation_errors == validate(storyboard_request)
                IN  IF validation_errors # <<>>
                    THEN hs' = Fail([hs EXCEPT !.storyboard_request =
                                                   Some(storyboard_request)],
                                    ValidationError("Validation failed: "
                                                    \o Join(validation_errors, "; ")))
                    ELSE hs' = [hs EXCEPT !.storyboard_request = Some(storyboard_request),
                                          !.pc = IF HasUserId(storyboard_request)
                                                 THEN "check_limits" ELSE "text"]
    /\ UNCHANGED <<db_user, arrived, gi_vars, pr_vars, rn_vars, bp_vars, rc_vars, fo_vars>>

\* lines 43-44
CheckUserLimits(outcome) ==
    /\ hs.pc = "check_limits"
    /\ LET read == get_user_by_id(RowOf(hs.storyboard_request[1].user_id), outcome)
           checked == check_user_limits(read)
           h == [hs EXCEPT !.limit_check = Some([read |-> read,
                                                 raised |-> check_user_limits_try(read),
                                                 result |-> checked])]
       IN  IF checked.kind = "raise"
           THEN hs' = Fail(h, checked.error)
           ELSE hs' = [h EXCEPT !.pc = "text"]
    /\ UNCHANGED <<db_user, arrived, gi_vars, pr_vars, rn_vars, bp_vars, rc_vars, fo_vars>>

\* lines 47-61
GenerateStoryboardData(answer) ==
    /\ hs.pc = "text"
    /\ LET generated == generate_storyboard_data(answer)
           h == [hs EXCEPT !.text_calls = @ + generated.calls,
                           !.text_answer = Some(answer)]
       IN  IF generated.out.kind = "raise"
           THEN hs' = Fail(h, generated.out.error)
           ELSE LET storyboard_response == generated.out.value
                    h2 == [h EXCEPT !.storyboard_response = Some(storyboard_response)]
                IN  IF storyboard_response.frames = <<>>
                    THEN hs' = Respond(h2, NoFramesResponse(storyboard_response))
                    ELSE hs' = [h2 EXCEPT !.pc = "render"]
    /\ UNCHANGED <<db_user, arrived, gi_vars, pr_vars, rn_vars, bp_vars, rc_vars, fo_vars>>

\* lines 64-67, and lines 85-88 when the request names no user
GenerateFrameImages ==
    /\ hs.pc = "render"
    /\ \E scripts \in [1..Len(hs.storyboard_response[1].frames) -> FrameScripts] :
         LET storyboard_request == hs.storyboard_request[1]
             storyboard_response == hs.storyboard_response[1]
             rendered == generate_frame_images(storyboard_response, storyboard_request,
                                               scripts)
             h == [hs EXCEPT !.generated_frames = rendered.frames,
                             !.image_calls = @ + rendered.image_calls,
                             !.uploads = @ + rendered.uploads]
         IN  IF HasUserId(storyboard_request)
             THEN hs' = [h EXCEPT !.pc = "usage_read"]
             ELSE hs' = Respond(h, StoryboardJson(storyboard_response, rendered.frames))
    /\ UNCHANGED <<db_user, arrived, gi_vars, pr_vars, rn_vars, bp_vars, rc_vars, fo_vars>>

\* a count that is incremented whatever the day
new_usage_count_increment(user) == user.daily_usage_count + 1

\* lines 75-80: the count to store, for a user whose last_usage_date is set
new_usage_count(user) ==
    IF user.last_usage_date # Some(Today) THEN 1 ELSE user.daily_usage_count + 1

\* lines 72-76 and 78: the read of the usage record and the choice of the new
\* count; when the read raises, finds no user or finds a user whose
\* last_usage_date is None (line 75 raises AttributeError), lines 81-88
ReadUsage(outcome) ==
    /\ hs.pc = "usage_read"
    /\ LET storyboard_response == hs.storyboard_response[1]
           read == get_user_by_id(RowOf(hs.storyboard_request[1].user_id), outcome)
           h == [hs EXCEPT !.usage_log = Append(@, read)]
           skipped == Respond(h, StoryboardJson(storyboard_response, hs.generated_frames))
       IN  IF read.kind = "raise" THEN hs' = skipped
           ELSE IF IsNone(read.value) THEN hs' = skipped
           ELSE LET user == read.value[1]
                IN  IF IsNone(user.last_usage_date) THEN hs' = skipped
                    ELSE hs' = [h EXCEPT !.pc = "usage_write",
                                         !.usage = Some(new_usage_count(user))]
    /\ UNCHANGED <<db_user, arrived, gi_vars, pr_vars, rn_vars, bp_vars, rc_vars, fo_vars>>

\* an UPDATE that adds one to the stored count
update_user_usage_relative(row, daily_usage_count, last_usage_date, outcome) ==
    IF outcome = "error" THEN [row |-> row, out |-> Raised(PyException("mysql.connector.Error"))]
    ELSE IF IsNone(row) THEN [row |-> row, out |-> Raised(NotFoundError("User not found"))]
    ELSE [row |-> Some([row[1] EXCEPT !.daily_usage_count = @ + 1,
                                      !.last_usage_date = Some(last_usage_date)]),
          out |-> Returned(None)]

\* database.py update_user_usage with the count chosen at line 77 or 80
update_user_usage(row, daily_usage_count, last_usage_date, outcome) ==
    IF outcome = "error" THEN [row |-> row, out |-> Raised(PyException("mysql.connector.Error"))]
    ELSE IF IsNone(row) THEN [row |-> row, out |-> Raised(NotFoundError("User not found"))]
    ELSE [row |-> Some([row[1] EXCEPT !.daily_usage_count = daily_usage_count,
                                      !.last_usage_date = Some(last_usage_date)]),
          out |-> Returned(None)]

\* a write whose error reaches the error_handler wrapper
UpdateUsage_propagating(outcome) ==
    /\ hs.pc = "usage_write"
    /\ LET user_id == hs.storyboard_request[1].user_id
           updated == update_user_usage(RowOf(user_id), hs.usage[1], Today, outcome)
           h == [hs EXCEPT !.usage_log = Append(@, updated.out)]
       IN  /\ db_user' = IF user_id = Some(UserId) THEN updated.row ELSE db_user
           /\ hs' = IF updated.out.kind = "raise" THEN Fail(h, updated.out.error)
                    ELSE Respond(h, StoryboardJson(hs.storyboard_response[1],
                                                   hs.generated_frames))
    /\ UNCHANGED <<arrived, gi_vars, pr_vars, rn_vars, bp_vars, rc_vars, fo_vars>>

\* lines 77 or 80, then 81-88: the write, whose error is logged and ignored
UpdateUsage(outcome) ==
    /\ hs.pc = "usage_write"
    /\ LET user_id == hs.storyboard_request[1].user_id
           updated == update_user_usage(RowOf(user_id), hs.usage[1], Today, outcome)
       IN  /\ db_user' = IF user_id = Some(UserId) THEN updated.row ELSE db_user
           /\ hs' = Respond([hs EXCEPT !.usage_log = Append(@, updated.out)],
                            StoryboardJson(hs.storyboard_response[1], hs.generated_frames))
    /\ UNCHANGED <<arrived, gi_vars, pr_vars, rn_vars, bp_vars, rc_vars, fo_vars>>

\* function_app.py hands the response to the client; the invocation's local
\* variables are gone
Reply ==
    /\ hs.pc = "done"
    /\ hs' = NoInvocation
    /\ UNCHANGED <<db_user, arrived, gi_vars, pr_vars, rn_vars, bp_vars, rc_vars, fo_vars>>

Next ==
    \/ \E req \in Requests : Arrive(req)
    \/ ValidateRequest
    \/ \E outcome \in DbOutcomes : CheckUserLimits(outcome)
    \/ \E answer \in TextAnswers : GenerateStoryboardData(answer)
    \/ GenerateFrameImages
    \/ \E outcome \in DbOutcomes : ReadUsage(outcome)
    \/ \E outcome \in DbOutcomes : UpdateUsage(outcome)
    \/ Reply

Spec == Init /\ [][Next]_vars

----------------------------------------------------------------------------
(* SpecRace: invocations of generate_storyboard for the same user that overlap
   in time (one thread each under the host); the users table is shared *)

MaxRacers == 2

Racers == 1..MaxRacers

RaceUsers ==
    [is_admin : {FALSE}, role : {"user", "admin"},
     daily_usage_count : {0, DAILY_USAGE_LIMIT - 1},
     last_usage_date : {Some(Yesterday), Some(Today)}]

\* every invocation carries the same valid body with the user's id
RaceRequest == [json |-> "valid", data |-> BaseBody @@ [userId |-> Some(UserId)]]

RaceAnswers ==
    {[kind |-> "transport_error", content |-> None],
     [kind |-> "content", content |-> Some(<<"{", "title", FramesToken(0), "}">>)],
     [kind |-> "content", content |-> Some(<<"{", "title", FramesToken(1), "}">>)]}

NoRacer ==
    [pc |-> "validate", limit_check |-> None, frames |-> 0, status |-> 0,
     usage_read |-> None, usage |-> None, written |-> None]

InitRace ==
    /\ rc_db \in {Some(u) : u \in RaceUsers}
    /\ rc_h = [r \in Racers |-> NoRacer]
    /\ GiIdle
    /\ PrIdle
    /\ RnIdle
    /\ HsIdle
    /\ BpIdle
    /\ FoIdle

\* lines 34-40 for RaceRequest
RaceValidate(r) ==
    /\ rc_h[r].pc = "validate"
    /\ LET req_body == validate_json_request(RaceRequest)
           errors == IF req_body.kind = "raise" THEN <<"no body">>
                     ELSE validate(from_dict(req_body.value))
       IN  rc_h' = [rc_h EXCEPT ![r].pc = IF errors # <<>> THEN "done" ELSE "check_limits",
                                ![r].status = IF errors # <<>> THEN 400 ELSE 0]
    /\ UNCHANGED <<rc_db, gi_vars, pr_vars, rn_vars, hs_vars, bp_vars, fo_vars>>

\* lines 43-44
RaceCheckUserLimits(r, outcome) ==
    /\ rc_h[r].pc = "check_limits"
    /\ LET read == get_user_by_id(rc_db, outcome)
           checked == check_user_limits(read)
       IN  rc_h' = [rc_h EXCEPT
                       ![r].limit_check = Some([read |-> read, result |-> checked]),
                       ![r].pc = IF checked.kind = "raise" THEN "done" ELSE "generate",
                       ![r].status = IF checked.kind = "raise"
                                     THEN error_handler(checked.error).status_code ELSE 0]
    /\ UNCHANGED <<rc_db, gi_vars, pr_vars, rn_vars, hs_vars, bp_vars, fo_vars>>

\* lines 47-67: the text model and the frame images; no shared state is touched
RaceGenerate(r, answer, script) ==
    /\ rc_h[r].pc = "generate"
    /\ LET generated == generate_storyboard_data(answer)
       IN  IF generated.out.kind = "raise"
           THEN rc_h' = [rc_h EXCEPT
                            ![r].pc = "done",
                            ![r].status = error_handler(generated.out.error).status_code]
           ELSE IF generated.out.value.frames = <<>>
           THEN rc_h' = [rc_h EXCEPT
                            ![r].pc = "done",
                            ![r].status = NoFramesResponse(generated.out.value).status_code]
           ELSE LET rendered == generate_frame_images(
                                    generated.out.value, from_dict(RaceRequest.data),
                                    [i \in 1..Len(generated.out.value.frames) |-> script])
                IN  rc_h' = [rc_h EXCEPT ![r].pc = "usage_read",
                                         ![r].frames = Len(rendered.frames)]
    /\ UNCHANGED <<rc_db, gi_vars, pr_vars, rn_vars, hs_vars, bp_vars, fo_vars>>

\* lines 72-76 and 78, or 81-88 when nothing is to be written
RaceReadUsage(r, outcome) ==
    /\ rc_h[r].pc = "usage_read"
    /\ LET read == get_user_by_id(rc_db, outcome)
           writes == /\ read.kind = "return"
                     /\ ~IsNone(read.value)
                     /\ ~IsNone(read.value[1].last_usage_date)
       IN  rc_h' = [rc_h EXCEPT
                       ![r].usage_read = Some(read),
                       ![r].usage = IF writes THEN Some(new_usage_count(read.value[1]))
                                    ELSE None,
                       ![r].pc = IF writes THEN "usage_write" ELSE "done",
                       ![r].status = IF writes THEN 0 ELSE 200]
    /\ UNCHANGED <<rc_db, gi_vars, pr_vars, rn_vars, hs_vars, bp_vars, fo_vars>>

\* lines 77 or 80, then 81-88
RaceUpdateUsage(r, outcome) ==
    /\ rc_h[r].pc = "usage_write"
    /\ LET updated == update_user_usage(rc_db, rc_h[r].usage[1], Today, outcome)
       IN  /\ rc_db' = updated.row
           /\ rc_h' = [rc_h EXCEPT ![r].written = Some(updated.out),
                                   ![r].pc = "done",
                                   ![r].status = 200]
    /\ UNCHANGED <<gi_vars, pr_vars, rn_vars, hs_vars, bp_vars, fo_vars>>

NextRace ==
    \E r \in Racers :
        \/ RaceValidate(r)
        \/ \E outcome \in DbOutcomes : RaceCheckUserLimits(r, outcome)
        \/ \E answer \in RaceAnswers, script \in FrameScripts : RaceGenerate(r, answer, script)
        \/ \E outcome \in DbOutcomes : RaceReadUsage(r, outcome)
        \/ \E outcome \in DbOutcomes : RaceUpdateUsage(r, outcome)

SpecRace == InitRace /\ [][NextRace]_vars

----------------------------------------------------------------------------
(* SpecFanOut: the frame workers of one render, statement by statement where
   they touch what they share: the variables of the enclosing
   _generate_frame_images, the module global _blob_storage and the container *)

MaxFanOut == 3

\* the instance a warm process already holds
WarmInstance == 0

\* file_name of lines 211-213 for frame i of this render
FrameFileName(i) == BlobFileName(Some(StoryId), Some(i))

NoUrl == [kind |-> "none", name |-> ""]

\* a worker before the pool runs it
NoWorker == [pc |-> "queued", blob_storage_service |-> None, image_url |-> NoUrl]

InitFanOut ==
    /\ fo_blob_storage \in {None, Some(WarmInstance)}
    /\ fo_instances = (IF IsNone(fo_blob_storage) THEN {} ELSE {WarmInstance})
    /\ fo_w \in {[i \in 1..n |-> NoWorker] : n \in 1..MaxFanOut}
    /\ fo_uploads = <<>>
    /\ fo_access = {}
    /\ GiIdle
    /\ PrIdle
    /\ RnIdle
    /\ HsIdle
    /\ BpIdle
    /\ RcIdle

FanOutRunning == {i \in 1..Len(fo_w) : fo_w[i].pc \notin {"queued", "done"}}

Access(i, variable, mode) == [worker |-> i, variable |-> variable, mode |-> mode]

\* storyboard_handler.py 133-150: what generate_single_frame reads of the
\* enclosing function up to the prompt; main_character_reference is
\* evaluated only when i > 1
StartSingleFrame(i) ==
    /\ fo_w[i].pc = "queued"
    /\ \A j \in 1..(i - 1) : fo_w[j].pc # "queued"
    /\ PoolHasIdleWorker(FanOutRunning)
    /\ fo_w' = [fo_w EXCEPT ![i].pc = "image"]
    /\ fo_access' = fo_access
          \cup {Access(i, variable, "read") :
                   variable \in {"storyboard_request", "total_frames", "storyboard_response"}}
          \cup (IF i > 1 THEN {Access(i, "main_character_reference", "read")} ELSE {})
    /\ UNCHANGED <<fo_blob_storage, fo_instances, fo_uploads, gi_vars, pr_vars, rn_vars, hs_vars, bp_vars, rc_vars>>

\* storyboard_handler.py 155 and ai_services.py 190-213: the attempts of
\* generate_image up to an answer of the image model (a temporary URL of
\* this frame's image), or the exception after the last attempt, which
\* generate_single_frame turns into the placeholder
CallImageModel(i, answered) ==
    /\ fo_w[i].pc = "image"
    /\ fo_w' = IF answered
               THEN [fo_w EXCEPT ![i].pc = "check",
                                 ![i].image_url = TempImageUrl("frame " \o ToString(i))]
               ELSE [fo_w EXCEPT ![i].pc = "done", ![i].image_url = PLACEHOLDER_IMAGE_URL]
    /\ fo_access' = fo_access \cup {Access(i, "story_id", "read")}
    /\ UNCHANGED <<fo_blob_storage, fo_instances, fo_uploads, gi_vars, pr_vars, rn_vars, hs_vars, bp_vars, rc_vars>>

\* blob_storage.py 238: if _blob_storage is None
GetBlobStorageCheck(i) ==
    /\ fo_w[i].pc = "check"
    /\ fo_w' = [fo_w EXCEPT ![i].pc = IF IsNone(fo_blob_storage) THEN "construct"
                                      ELSE "return"]
    /\ fo_access' = fo_access \cup {Access(i, "_blob_storage", "read")}
    /\ UNCHANGED <<fo_blob_storage, fo_instances, fo_uploads, gi_vars, pr_vars, rn_vars, hs_vars, bp_vars, rc_vars>>

\* blob_storage.py 239: _blob_storage = BlobStorageService(); when the
\* constructor raises, nothing is assigned and generate_image falls back to
\* the temporary URL (ai_services.py 221-224)
GetBlobStorageConstruct(i, constructed) ==
    /\ fo_w[i].pc = "construct"
    /\ IF constructed
       THEN LET instance == Cardinality(fo_instances) + 1
            IN  /\ fo_instances' = fo_instances \cup {instance}
                /\ fo_blob_storage' = Some(instance)
                /\ fo_w' = [fo_w EXCEPT ![i].pc = "return"]
                /\ fo_access' = fo_access \cup {Access(i, "_blob_storage", "write")}
       ELSE /\ fo_w' = [fo_w EXCEPT ![i].pc = "done"]
            /\ UNCHANGED <<fo_instances, fo_blob_storage, fo_access>>
    /\ UNCHANGED <<fo_uploads, gi_vars, pr_vars, rn_vars, hs_vars, bp_vars, rc_vars>>

\* blob_storage.py 240: return _blob_storage, the global as it is now
GetBlobStorageReturn(i) ==
    /\ fo_w[i].pc = "return"
    /\ fo_w' = [fo_w EXCEPT ![i].pc = "upload", ![i].blob_storage_service = fo_blob_storage]
    /\ fo_access' = fo_access \cup {Access(i, "_blob_storage", "read")}
    /\ UNCHANGED <<fo_blob_storage, fo_instances, fo_uploads, gi_vars, pr_vars, rn_vars, hs_vars, bp_vars, rc_vars>>

\* ai_services.py 218-224: upload_image_from_url under the frame's file name;
\* upload_blob(overwrite=True) replaces what the container holds under it
UploadImage(i, outcome) ==
    /\ fo_w[i].pc = "upload"
    /\ LET stored == upload_image_from_url(fo_w[i].image_url, FrameFileName(i), outcome)
       IN  IF stored.kind = "return"
           THEN /\ fo_uploads' = Append(fo_uploads, [name |-> stored.value.name, frame |-> i])
                /\ fo_w' = [fo_w EXCEPT ![i].pc = "done", ![i].image_url = stored.value]
           ELSE /\ fo_uploads' = fo_uploads
                /\ fo_w' = [fo_w EXCEPT ![i].pc = "done"]
    /\ UNCHANGED <<fo_blob_storage, fo_instances, fo_access, gi_vars, pr_vars, rn_vars, hs_vars, bp_vars, rc_vars>>

NextFanOut ==
    \E i \in 1..Len(fo_w) :
        \/ StartSingleFrame(i)
        \/ \E answered \in BOOLEAN : CallImageModel(i, answered)
        \/ GetBlobStorageCheck(i)
        \/ \E constructed \in BOOLEAN : GetBlobStorageConstruct(i, constructed)
        \/ GetBlobStorageReturn(i)
        \/ \E outcome \in StoreOutcomes \ {"construct_fail"} : UploadImage(i, outcome)

SpecFanOut == InitFanOut /\ [][NextFanOut]_vars

----------------------------------------------------------------------------
(* Properties of _generate_frame_images (SpecRender) *)

\* the artifact URL of frame k of this render
BlobUrlOfFrame(k) ==
    [kind |-> "blob", name |-> "story_" \o StoryId \o "_frame_" \o ToString(k) \o ".png"]

\* C1: whatever the order in which the workers complete and are collected,
\* the returned list has exactly one entry per outline frame and entry k is
\* the frame_result the worker of frame k built from outline frame k.
C1_OrderPreserved ==
    rn_pc = "returned" =>
        /\ Len(rn_ret) = TotalFrames
        /\ \A k \in 1..TotalFrames :
              /\ rn_ret[k] = rn_future[k].frame_result
              /\ rn_ret[k]["description"] = rn_outline.frames[k].description
              /\ rn_ret[k]["imageUrl"].kind = "blob" => rn_ret[k]["imageUrl"] = BlobUrlOfFrame(k)

\* the frames were collected last-first and one of them had failed
C1_Witness ==
    /\ rn_pc = "returned"
    /\ TotalFrames >= 3
    /\ rn_results[1][1] = 3
    /\ rn_results[2][1] = 2
    /\ rn_results[3][1] = 1
    /\ rn_future[2].failed
    /\ rn_ret[3]["description"] = rn_outline.frames[3].description

\* C2: a frame whose generate_image raised is returned with the placeholder
\* URL, the batch still returns every frame, and every frame whose
\* generation succeeded carries its own generated URL, whichever other
\* frames failed.
C2_FailureIsolated ==
    rn_pc = "returned" =>
        /\ Len(rn_ret) = TotalFrames
        /\ \A k \in 1..TotalFrames :
              IF rn_future[k].failed
              THEN rn_ret[k]["imageUrl"] = PLACEHOLDER_IMAGE_URL
              ELSE \/ rn_ret[k]["imageUrl"] = BlobUrlOfFrame(k)
                   \/ rn_ret[k]["imageUrl"].kind = "temp"

\* frame 2 failed, frames 1 and 3 were generated and persisted
C2_Witness ==
    /\ rn_pc = "returned"
    /\ TotalFrames = 3
    /\ rn_future[2].failed
    /\ rn_ret[1]["imageUrl"] = BlobUrlOfFrame(1)
    /\ rn_ret[2]["imageUrl"] = PLACEHOLDER_IMAGE_URL
    /\ rn_ret[3]["imageUrl"] = BlobUrlOfFrame(3)

\* C6: at every instant at most MAX_PARALLEL_IMAGES (3) frame generations
\* are running; a queued frame waits until a running one has finished.
C6_BoundedInFlight == Cardinality(InFlight) <= MAX_PARALLEL_IMAGES

\* three frames are running and the fourth waits in the queue
C6_Witness ==
    /\ TotalFrames >= 4
    /\ InFlight = {1, 2, 3}
    /\ rn_future[4].state = "queued"

----------------------------------------------------------------------------
(* Properties of _parse_response (SpecParse) *)

\* the content is unusable: it is None, no JSON can be cut out of its code
\* fence, the cleaned text does not decode, or a required key is missing
ContentMalformed(content) ==
    \/ IsNone(content)
    \/ CleanContent(content[1]).kind = "raise"
    \/ /\ CleanContent(content[1]).kind = "return"
       /\ LET loaded == json_loads(CleanContent(content[1]).value)
          IN  \/ loaded.kind = "raise"
              \/ "title" \notin DOMAIN loaded.value
              \/ "frames" \notin DOMAIN loaded.value

\* C8: _parse_response never raises, and for content that cannot be
\* JSON-decoded or lacks the "title" or "frames" key it returns the outline
\* with empty title and zero frames.
C8_ParseNeverRaises ==
    pr_pc = "done" =>
        /\ pr_result.kind = "return"
        /\ ContentMalformed(pr_content) =>
                /\ pr_result.value.title = EmptyText
                /\ pr_result.value.frames = <<>>

\* a decodable object without "title" was parsed into the empty outline
C8_Witness ==
    /\ pr_pc = "done"
    /\ pr_content = Some(<<"{", "frames2", "}">>)
    /\ pr_result.kind = "return"
    /\ pr_result.value = StoryboardResponse(EmptyText, <<>>)

\* C25: every frame _generate_frame_images stores or returns, with its image
\* or with the placeholder, has the key dialogue exactly when the request's
\* include_dialogue is set and the key actionNote exactly when
\* include_action_notes is set.
C25_OptionalKeysGated ==
    /\ \A n \in 1..Len(rn_results) :
          /\ ("dialogue" \in DOMAIN rn_results[n][2]) <=> rn_request.include_dialogue
          /\ ("actionNote" \in DOMAIN rn_results[n][2]) <=> rn_request.include_action_notes
    /\ \A k \in 1..Len(rn_ret) :
          /\ ("dialogue" \in DOMAIN rn_ret[k]) <=> rn_request.include_dialogue
          /\ ("actionNote" \in DOMAIN rn_ret[k]) <=> rn_request.include_action_notes

\* a render with dialogue and without action notes returned a placeholder
\* frame and a frame with its image, both with dialogue only
C25_Witness ==
    /\ rn_pc = "returned"
    /\ rn_request.include_dialogue
    /\ ~rn_request.include_action_notes
    /\ \E k \in 1..Len(rn_ret) :
          /\ rn_ret[k]["imageUrl"] = PLACEHOLDER_IMAGE_URL
          /\ DOMAIN rn_ret[k] = {"description", "imageUrl", "dialogue"}
    /\ \E k \in 1..Len(rn_ret) :
          /\ rn_ret[k]["imageUrl"].kind = "blob"
          /\ DOMAIN rn_ret[k] = {"description", "imageUrl", "dialogue"}

----------------------------------------------------------------------------
(* Properties of generate_image (SpecImage) *)

AllAttemptsFailed == \A a \in 1..MAX_RETRIES : gi_args.script.img[a] # "ok"

\* the attempt at which the image model answers, when there is one
FirstOk == CHOOSE a \in 1..MAX_RETRIES :
              /\ gi_args.script.img[a] = "ok"
              /\ \A b \in 1..(a - 1) : gi_args.script.img[b] # "ok"

\* C9: generate_image calls the image model at most MAX_RETRIES times; when
\* every attempt failed it raises RateLimitError if the last attempt met a
\* rate-limit signal and APIError (500) otherwise, and returns no URL.
C9_RetriesExhausted ==
    gi_pc = "done" =>
        /\ gi_result.calls <= MAX_RETRIES
        /\ AllAttemptsFailed =>
                /\ gi_result.out.kind = "raise"
                /\ IF gi_args.script.img[MAX_RETRIES] = "rate_limit"
                   THEN /\ gi_result.out.error.class = "RateLimitError"
                        /\ gi_result.out.error.status_code = 429
                   ELSE /\ gi_result.out.error.class = "APIError"
                        /\ gi_result.out.error.status_code = 500

\* three rate-limited calls ended in RateLimitError
C9_Witness ==
    /\ gi_pc = "done"
    /\ \A a \in 1..MAX_RETRIES : gi_args.script.img[a] = "rate_limit"
    /\ gi_result.calls = MAX_RETRIES
    /\ gi_result.out.kind = "raise"
    /\ gi_result.out.error.class = "RateLimitError"

\* C10: when the image model answered and the artifact store failed in any
\* of its four ways, generate_image returns the model's temporary URL, not
\* the placeholder and not an error, and the image model is not called
\* after the attempt that answered.
C10_PersistFallback ==
    (gi_pc = "done" /\ ~AllAttemptsFailed /\ gi_args.script.store # "ok") =>
        /\ gi_result.out.kind = "return"
        /\ gi_result.out.value = TempImageUrl(gi_args.args.image_prompt)
        /\ gi_result.out.value # PLACEHOLDER_IMAGE_URL
        /\ gi_result.persists = 1
        /\ gi_result.calls =
              Cardinality({b \in 1..FirstOk : ReachesImageModel(gi_args.script.img[b])})

\* the second attempt answered, the upload failed, the temporary URL came back
C10_Witness ==
    /\ gi_pc = "done"
    /\ gi_args.script.img[1] = "error"
    /\ gi_args.script.img[2] = "ok"
    /\ gi_args.script.store = "upload_fail"
    /\ gi_result.calls = 2
    /\ gi_result.out.kind = "return"
    /\ gi_result.out.value.kind = "temp"

\* the attempts generate_image made: up to the one that answered, or all
AttemptsMade == 1..(IF AllAttemptsFailed THEN MAX_RETRIES ELSE FirstOk)

\* the attempts after which generate_image has to sleep
SleepingAttempts ==
    {a \in AttemptsMade : gi_args.script.img[a] = "rate_limit" /\ a < MAX_RETRIES}

----------------------------------------------------------------------------
(* Properties of generate_storyboard (Spec) *)

\* the usage check read the row of a user with role "user", not admin, whose
\* last_usage_date is today and whose count has reached the limit
OverLimitRead(check) ==
    /\ check.read.kind = "return"
    /\ ~IsNone(check.read.value)
    /\ LET user == check.read.value[1]
       IN  /\ ~user.is_admin
           /\ user.role = "user"
           /\ user.last_usage_date = Some(Today)
           /\ user.daily_usage_count >= DAILY_USAGE_LIMIT

\* C3: a request with the user_id of a user with role "user", last_usage_date
\* today and daily_usage_count >= DAILY_USAGE_LIMIT is rejected: the usage
\* check fails with RateLimitError, the response is 429, and neither the text
\* model nor the image model is called.
C3_OverLimitRejected ==
    (~IsNone(hs.limit_check) /\ OverLimitRead(hs.limit_check[1])) =>
        /\ hs.limit_check[1].result.kind = "raise"
        /\ hs.limit_check[1].result.error.class = "RateLimitError"
        /\ hs.pc = "done"
        /\ hs.response[1].status_code = 429
        /\ hs.text_calls = 0
        /\ hs.image_calls = 0

\* _generate_frame_images has returned
Rendered == hs.pc \in {"usage_read", "usage_write", "done"} /\ hs.generated_frames # <<>>

\* C4 as stated: for a valid request with frame_count = N a successful render
\* returns exactly N rendered frames, in index order 1..N.
C4_ExactlyRequestedFrames ==
    Rendered =>
        /\ Len(hs.generated_frames) = hs.storyboard_request[1].frame_count
        /\ \A k \in 1..Len(hs.generated_frames) :
              hs.generated_frames[k]["description"]
                  = hs.storyboard_response[1].frames[k].description

\* C4 amended: a successful render returns exactly one rendered frame for each
\* frame of the outline the text model returned, in the outline's order 1..M,
\* whatever frame_count the request carried; the 200 response lists them.
C4_OneFramePerOutlineFrame ==
    Rendered =>
        /\ Len(hs.generated_frames) = Len(hs.storyboard_response[1].frames)
        /\ \A k \in 1..Len(hs.generated_frames) :
              hs.generated_frames[k]["description"]
                  = hs.storyboard_response[1].frames[k].description
        /\ hs.pc = "done" =>
              hs.response[1] = [status_code |-> 200,
                                body |-> [title |-> hs.storyboard_response[1].title,
                                          frames |-> hs.generated_frames]]

\* a request for one frame was answered with the two frames of the outline
C4_Witness ==
    /\ hs.pc = "done"
    /\ ~IsNone(hs.storyboard_request)
    /\ hs.storyboard_request[1].frame_count = 1
    /\ Len(hs.generated_frames) = 2
    /\ hs.response[1].status_code = 200

\* C5: when the text client yields an outline with zero frames (malformed
\* content included), the response is 200 with body {title, frames: []} and
\* no image is generated and nothing is uploaded.
C5_EmptyOutlineShortCircuits ==
    (~IsNone(hs.storyboard_response) /\ hs.storyboard_response[1].frames = <<>>) =>
        /\ hs.pc = "done"
        /\ hs.response[1] = [status_code |-> 200,
                             body |-> [title |-> hs.storyboard_response[1].title,
                                       frames |-> <<>>]]
        /\ hs.generated_frames = <<>>
        /\ hs.image_calls = 0
        /\ hs.uploads = 0

\* the text model answered with text that is not JSON
C5_Witness ==
    /\ hs.pc = "done"
    /\ hs.text_answer = Some([kind |-> "content", content |-> Some(<<"x">>)])
    /\ hs.storyboard_response = Some(StoryboardResponse(EmptyText, <<>>))

CheckedUser == ~IsNone(hs.limit_check)
               /\ hs.limit_check[1].read.kind = "return"
               /\ ~IsNone(hs.limit_check[1].read.value)

\* positions of generate_storyboard after line 44
PastUsageCheck == {"text", "render", "usage_read", "usage_write", "done"}

\* C11: for a user whose last_usage_date is not today the usage check
\* succeeds, whatever daily_usage_count is: no RateLimitError is raised, the
\* check returns, and the request goes on to the text model.
C11_OtherDayPasses ==
    (CheckedUser /\ hs.limit_check[1].read.value[1].last_usage_date # Some(Today)) =>
        /\ hs.limit_check[1].raised.kind = "return"
        /\ hs.limit_check[1].result.kind = "return"
        /\ hs.pc \in PastUsageCheck
        /\ hs.pc = "done" => hs.text_calls = 1

\* a user with role "user" at the limit, last used yesterday, was let through
C11_Witness ==
    /\ CheckedUser
    /\ LET user == hs.limit_check[1].read.value[1]
       IN  /\ ~user.is_admin
           /\ user.role = "user"
           /\ user.last_usage_date = Some(Yesterday)
           /\ user.daily_usage_count >= DAILY_USAGE_LIMIT
    /\ hs.pc = "text"

\* C12: for a user with is_admin set or role admin or superadmin the usage
\* check succeeds, whatever daily_usage_count and last_usage_date are.
C12_PrivilegedPasses ==
    (CheckedUser /\ LET user == hs.limit_check[1].read.value[1]
                    IN  user.is_admin \/ user.role \in {"admin", "superadmin"}) =>
        /\ hs.limit_check[1].raised.kind = "return"
        /\ hs.limit_check[1].result.kind = "return"
        /\ hs.pc \in PastUsageCheck
        /\ hs.pc = "done" => hs.text_calls = 1

\* a superadmin without the is_admin flag, at the limit today, was let through
C12_Witness ==
    /\ CheckedUser
    /\ LET user == hs.limit_check[1].read.value[1]
       IN  /\ ~user.is_admin
           /\ user.role = "superadmin"
           /\ user.last_usage_date = Some(Today)
           /\ user.daily_usage_count >= DAILY_USAGE_LIMIT
    /\ hs.pc = "text"

\* C13: when the read of the user fails during the usage check, the error is
\* swallowed and the request is treated as authorized: the check returns None
\* and the request goes on to the text model as an authorized one does.
C13_FailOpen ==
    (~IsNone(hs.limit_check) /\ hs.limit_check[1].read.kind = "raise") =>
        /\ hs.limit_check[1].result = Returned(None)
        /\ hs.pc \in PastUsageCheck
        /\ hs.pc = "done" => hs.text_calls = 1

\* the read failed and the request then got its storyboard
C13_Witness ==
    /\ ~IsNone(hs.limit_check)
    /\ hs.limit_check[1].read.kind = "raise"
    /\ hs.pc = "done"
    /\ hs.response[1].status_code = 200
    /\ hs.generated_frames # <<>>

\* C14: after a generation that produced frames for an existing user, with
\* no datastore error, the stored record becomes (1, today) when the stored
\* last_usage_date was a date other than today, and (previous count + 1,
\* today) when it was today.
C14_UsageRecorded ==
    (/\ hs.pc = "done"
     /\ Rendered
     /\ Len(hs.usage_log) >= 1
     /\ hs.usage_log[1].kind = "return"
     /\ ~IsNone(hs.usage_log[1].value)
     /\ ~IsNone(hs.usage_log[1].value[1].last_usage_date)) =>
        /\ Len(hs.usage_log) = 2
        /\ hs.usage_log[2].kind = "return" =>
              LET user == hs.usage_log[1].value[1]
              IN  db_user = Some([user EXCEPT
                      !.daily_usage_count =
                          IF user.last_usage_date = Some(Today)
                          THEN user.daily_usage_count + 1 ELSE 1,
                      !.last_usage_date = Some(Today)])

\* a user last seen yesterday with two generations got the record (1, today)
C14_Witness ==
    /\ hs.pc = "done"
    /\ Len(hs.usage_log) = 2
    /\ hs.usage_log[1].kind = "return"
    /\ hs.usage_log[2].kind = "return"
    /\ hs.usage_log[1].value[1].last_usage_date = Some(Yesterday)
    /\ hs.usage_log[1].value[1].daily_usage_count = DAILY_USAGE_LIMIT - 1
    /\ db_user[1].daily_usage_count = 1
    /\ db_user[1].last_usage_date = Some(Today)

\* the read or the write of the usage record after the render raised
UsageUpdateFailed == \E j \in 1..Len(hs.usage_log) : hs.usage_log[j].kind = "raise"

\* C22: when reading or writing the usage record fails after the frames were
\* generated, the error is not caught by the wrapper and the response is 200
\* with the title and every generated frame, the value the handler returns
\* when the update succeeds.
C22_UsageErrorIgnored ==
    (hs.pc = "done" /\ UsageUpdateFailed) =>
        /\ IsNone(hs.caught)
        /\ hs.generated_frames # <<>>
        /\ Len(hs.generated_frames) = Len(hs.storyboard_response[1].frames)
        /\ hs.response = Some([status_code |-> 200,
                               body |-> [title |-> hs.storyboard_response[1].title,
                                         frames |-> hs.generated_frames]])

\* the read of the record succeeded, the write failed, the storyboard came back
C22_Witness ==
    /\ hs.pc = "done"
    /\ Len(hs.usage_log) = 2
    /\ hs.usage_log[1].kind = "return"
    /\ hs.usage_log[2].kind = "raise"
    /\ hs.response[1].status_code = 200
    /\ Len(hs.response[1].body.frames) = 2

\* C23 as stated: a generation that produced frames for a user with is_admin
\* set or role admin or superadmin leaves that user's daily_usage_count and
\* last_usage_date as they were.
C23_PrivilegedUsageUnchanged ==
    (/\ hs.pc = "done"
     /\ Rendered
     /\ Len(hs.usage_log) >= 1
     /\ hs.usage_log[1].kind = "return"
     /\ ~IsNone(hs.usage_log[1].value)
     /\ LET user == hs.usage_log[1].value[1]
        IN  user.is_admin \/ user.role \in {"admin", "superadmin"}) =>
        db_user = hs.usage_log[1].value

\* the usage check and the usage update of the finished request met no
\* datastore error and found the user
UsageStepsClean ==
    /\ hs.pc = "done"
    /\ Rendered
    /\ CheckedUser
    /\ Len(hs.usage_log) >= 1
    /\ \A j \in 1..Len(hs.usage_log) : hs.usage_log[j].kind = "return"
    /\ ~IsNone(hs.usage_log[1].value)

\* the record after one unit was consumed today
Consumed(user) ==
    [user EXCEPT !.daily_usage_count = IF user.last_usage_date = Some(Today)
                                       THEN user.daily_usage_count + 1 ELSE 1,
                 !.last_usage_date = Some(Today)]

\* C27 as stated: a request of a non-privileged user whose count of today is
\* within DAILY_USAGE_LIMIT, with no datastore error, leaves the stored count
\* within DAILY_USAGE_LIMIT: at the limit the count is not incremented.
C27_CountWithinLimit ==
    (/\ UsageStepsClean
     /\ LET user == hs.limit_check[1].read.value[1]
        IN  /\ ~user.is_admin
            /\ user.role \notin {"admin", "superadmin"}
            /\ user.last_usage_date = Some(Today)
            /\ user.daily_usage_count <= DAILY_USAGE_LIMIT) =>
        db_user[1].daily_usage_count <= DAILY_USAGE_LIMIT

\* every frame of the finished render carries the placeholder
AllPlaceholders ==
    \A k \in 1..Len(hs.generated_frames) :
        hs.generated_frames[k]["imageUrl"] = PLACEHOLDER_IMAGE_URL

\* C28 as stated: the usage update runs exactly when the outline has a
\* frame: a request answered with an empty frames list reads and writes no
\* usage record, a request with a user id whose outline has frames runs the
\* update, and when every frame ended as a placeholder the user's record
\* still has one unit consumed.
C28_UpdateIffFrames ==
    /\ (~IsNone(hs.storyboard_response) /\ hs.storyboard_response[1].frames = <<>>) =>
          hs.usage_log = <<>>
    /\ (hs.pc = "done" /\ Rendered /\ HasUserId(hs.storyboard_request[1])) =>
          Len(hs.usage_log) >= 1
    /\ (UsageStepsClean /\ AllPlaceholders) =>
          db_user = Some(Consumed(hs.usage_log[1].value[1]))

\* C29 as stated: for an existing user whose last_usage_date is None the
\* usage check succeeds, and after a generation that produced frames the
\* stored record is daily_usage_count = 1, last_usage_date = today.
C29_NullDateRecorded ==
    /\ (CheckedUser /\ IsNone(hs.limit_check[1].read.value[1].last_usage_date)
        /\ ~IsPrivileged(hs.limit_check[1].read.value[1])) =>
          hs.limit_check[1].result.kind = "return"
    /\ (UsageStepsClean /\ IsNone(hs.usage_log[1].value[1].last_usage_date)) =>
          /\ db_user[1].daily_usage_count = 1
          /\ db_user[1].last_usage_date = Some(Today)

\* the body is a JSON object in which a required field is missing or empty,
\* frameCount is below 1, or cameraAngles is missing or empty
FailsValidation(req) ==
    /\ req.json = "valid"
    /\ DOMAIN req.data # {}
    /\ \/ \E key \in {"prompt", "genre", "visualStyle", "mood"} :
             key \notin DOMAIN req.data \/ req.data[key] = ""
       \/ ("frameCount" \in DOMAIN req.data /\ req.data["frameCount"] < 1)
       \/ "cameraAngles" \notin DOMAIN req.data
       \/ req.data["cameraAngles"] = <<>>

\* C15: a request that fails validation is answered with 400 and does no
\* partial work: the user store is neither read nor written, and neither the
\* text model nor the image model is called.
C15_InvalidRequestNoWork ==
    /\ [](FailsValidation(hs.req) /\ hs.pc # "validate" =>
            /\ hs.pc = "done"
            /\ hs.response[1].status_code = 400
            /\ DOMAIN hs.response[1].body = {"error"}
            /\ IsNone(hs.limit_check)
            /\ hs.usage_log = <<>>
            /\ hs.text_calls = 0
            /\ hs.image_calls = 0
            /\ hs.uploads = 0)
    /\ [][FailsValidation(hs.req) /\ hs.pc = "validate" => db_user' = db_user]_vars

\* a body without genre and with frameCount 0, naming a stored user, got 400
C15_Witness ==
    /\ hs.pc = "done"
    /\ "userId" \in DOMAIN hs.req.data
    /\ "genre" \notin DOMAIN hs.req.data
    /\ hs.req.data["frameCount"] = 0
    /\ hs.response[1] = [status_code |-> 400,
                         body |-> [error |-> "Validation failed: Genre is required; "
                                             \o "Frame count must be at least 1"]]
    /\ ~IsNone(db_user)

\* the status the error classes of models/__init__.py stand for
StatusOfClass(class) ==
    CASE class = "ValidationError" -> 400
      [] class = "NotFoundError" -> 404
      [] class = "RateLimitError" -> 429
      [] OTHER -> 500

\* the {error} response a caught exception must get
ErrorResponseFor(e) ==
    [status_code |-> StatusOfClass(e.class),
     body |-> [error |-> IF e.class = "Exception" THEN "An unexpected error occurred"
                         ELSE e.message]]

\* one exception of each class
ErrorSamples ==
    {ValidationError("Validation failed: Prompt is required"),
     NotFoundError("User not found"),
     RateLimitError("Daily usage limit exceeded."),
     APIError("Failed to generate storyboard: Connection error."),
     PyException("'list' object has no attribute 'get'")}

\* C16: every response of the generate endpoint is either 200 with
\* {title, frames} or a JSON {error} body whose status follows the class of
\* the error: 400 ValidationError, 404 NotFoundError, 429 RateLimitError, 500
\* other APIError, and 500 with "An unexpected error occurred" for any other
\* exception; every invocation ends with a response.
C16_ResponseShape ==
    /\ \A e \in ErrorSamples : error_handler(e) = ErrorResponseFor(e)
    /\ hs.pc = "done" =>
          /\ ~IsNone(hs.response)
          /\ IF IsNone(hs.caught)
             THEN /\ hs.response[1].status_code = 200
                  /\ DOMAIN hs.response[1].body = {"title", "frames"}
             ELSE hs.response[1] = ErrorResponseFor(hs.caught[1])

\* a body that is a JSON list made from_dict raise AttributeError
C16_Witness ==
    /\ hs.pc = "done"
    /\ hs.req.json = "array"
    /\ hs.caught = Some(PyException("'list' object has no attribute 'get'"))
    /\ hs.response[1] = [status_code |-> 500,
                         body |-> [error |-> "An unexpected error occurred"]]

----------------------------------------------------------------------------
(* Properties of build_image_prompt (SpecPrompt) *)

\* C17 as stated: for all inputs, arbitrarily long texts included, the prompt
\* returned is at most the cap of the example, 400 characters, long.
C17_PromptWithin400 == bp_pc = "done" => Len(bp_prompt) <= 400

\* C17 amended: for all inputs, arbitrarily long texts included, the prompt
\* returned is at most 1000 characters long, the cap written into
\* build_image_prompt.
C17_PromptWithinCap == bp_pc = "done" => Len(bp_prompt) <= MAX_PROMPT_LENGTH

\* a description longer than the cap was cut to exactly the cap
C17_Witness ==
    /\ bp_pc = "done"
    /\ Len(bp_args.description) = MaxTextLen
    /\ Len(bp_prompt) = MAX_PROMPT_LENGTH

\* the prompt sanitizer as the specification describes it: the text is
\* lower-cased, risk terms are replaced by neutral words, and the remaining
\* words of the blocklist are dropped
LowerOf ==
    [A |-> "a", B |-> "b", C |-> "c", D |-> "d", E |-> "e", F |-> "f", G |-> "g",
     H |-> "h", I |-> "i", J |-> "j", K |-> "k", L |-> "l", M |-> "m", N |-> "n",
     O |-> "o", P |-> "p", Q |-> "q", R |-> "r", S |-> "s", T |-> "t", U |-> "u",
     V |-> "v", W |-> "w", X |-> "x", Y |-> "y", Z |-> "z"]

RECURSIVE LowerCase(_)
LowerCase(text) ==
    IF Len(text) = 0 THEN ""
    ELSE IF Len(text) = 1 THEN (IF text \in DOMAIN LowerOf THEN LowerOf[text] ELSE text)
    ELSE LET half == Len(text) \div 2
         IN  LowerCase(SubSeq(text, 1, half)) \o LowerCase(SubSeq(text, half + 1, Len(text)))

RECURSIVE SplitWords(_)
\* the pieces of text between spaces
SplitWords(text) ==
    IF Len(text) <= 1 THEN (IF text = " " THEN <<"", "">> ELSE <<text>>)
    ELSE LET half == Len(text) \div 2
             left == SplitWords(SubSeq(text, 1, half))
             right == SplitWords(SubSeq(text, half + 1, Len(text)))
         IN  SubSeq(left, 1, Len(left) - 1)
             \o <<left[Len(left)] \o right[1]>>
             \o Tail(right)

RiskTerms == [weapon |-> "item", sword |-> "item", gun |-> "item", knife |-> "tool"]

Blocklist == {"blood", "gore", "kill"}

sanitize(text) ==
    LET words == SplitWords(LowerCase(text))
        replaced == [i \in 1..Len(words) |->
                        IF words[i] \in DOMAIN RiskTerms THEN RiskTerms[words[i]]
                        ELSE words[i]]
    IN  Join(SelectSeq(replaced, LAMBDA w : w # "" /\ w \notin Blocklist), " ")

\* C18: the description, character_details and environment_details of a
\* frame pass through the prompt sanitizer before they enter the image prompt:
\* the prompt handed to the image model is the one built from the sanitized
\* texts, and no unsanitized frame text reaches the image service.
C18_FrameTextSanitized ==
    bp_pc = "done" =>
        bp_prompt = build_image_prompt(sanitize(bp_args.description),
                                       bp_args.visual_style, bp_args.mood,
                                       1, 1, "A Robot Paints",
                                       sanitize(bp_args.character_details),
                                       sanitize(bp_args.environment_details))

----------------------------------------------------------------------------
(* Properties of overlapping requests (SpecRace) *)

\* invocation r generated frames, read count c for today and stored its count
WroteAfterReading(r, c) ==
    /\ rc_h[r].pc = "done"
    /\ rc_h[r].status = 200
    /\ rc_h[r].frames > 0
    /\ rc_h[r].written = Some(Returned(None))
    /\ rc_h[r].limit_check[1].result.kind = "return"
    /\ rc_h[r].usage_read[1].value[1].daily_usage_count = c
    /\ rc_h[r].usage_read[1].value[1].last_usage_date = Some(Today)

\* C19: overlapping requests of one non-privileged user can all pass the
\* usage check and all write the same value, the stale count + 1: when every
\* one of them has read count c before any of them wrote, the successful
\* generations together raise daily_usage_count by 1 only.
C19_LostUpdate ==
    \A c \in 0..(DAILY_USAGE_LIMIT + MaxRacers) :
        (\A r \in Racers : WroteAfterReading(r, c)) =>
            /\ \A r \in Racers : rc_h[r].usage = Some(c + 1)
            /\ rc_db[1].daily_usage_count = c + 1
            /\ rc_db[1].last_usage_date = Some(Today)

\* two requests of a user with role "user" and a count of 0 today both passed
\* the check, both generated, and the stored count is 1
C19_Witness ==
    /\ rc_db[1].role = "user"
    /\ ~rc_db[1].is_admin
    /\ \A r \in Racers :
          /\ WroteAfterReading(r, 0)
          /\ rc_h[r].limit_check[1].read.kind = "return"
    /\ rc_db[1].daily_usage_count = 1

----------------------------------------------------------------------------
(* Termination of _generate_frame_images (SpecRenderFair) *)

\* C20: every render terminates: with remote calls that return or fail and
\* fairly scheduled workers, every frame of the outline, of more than
\* MAX_PARALLEL_IMAGES frames too, gets a result, and _generate_frame_images
\* returns a list with one entry per frame.
C20_RenderTerminates ==
    <>(/\ rn_pc = "returned"
       /\ \A i \in 1..TotalFrames : rn_future[i].state = "done" /\ DictHas(rn_results, i)
       /\ Len(rn_ret) = TotalFrames)

\* a render of more frames than the pool has threads returned, with a frame
\* whose image generation had failed
C20_Witness ==
    /\ rn_pc = "returned"
    /\ TotalFrames > MAX_PARALLEL_IMAGES
    /\ \E i \in 1..TotalFrames : rn_future[i].failed
    /\ Len(rn_ret) = TotalFrames

----------------------------------------------------------------------------
(* Properties of the frame workers (SpecFanOut) *)

\* C24 as stated: while the fan-out runs, no variable that one frame worker
\* writes is read or written by another worker; what several workers access
\* they only read.
C24_NoSharedMutableState ==
    \A a \in fo_access, b \in fo_access :
        (a.worker # b.worker /\ a.variable = b.variable) =>
            (a.mode = "read" /\ b.mode = "read")

\* C26: within one render each upload goes to the name
\* story_<id>_frame_<i>.png of its own frame, no name receives two uploads,
\* and two frames that were persisted have different URLs, whatever the
\* interleaving of the workers.
C26_DistinctArtifacts ==
    /\ \A a \in 1..Len(fo_uploads) :
          fo_uploads[a].name
              = "story_" \o StoryId \o "_frame_" \o ToString(fo_uploads[a].frame) \o ".png"
    /\ \A a \in 1..Len(fo_uploads), b \in 1..Len(fo_uploads) :
          a # b => fo_uploads[a].name # fo_uploads[b].name
    /\ \A i \in 1..Len(fo_w), j \in 1..Len(fo_w) :
          (i # j /\ fo_w[i].image_url.kind = "blob" /\ fo_w[j].image_url.kind = "blob") =>
              fo_w[i].image_url # fo_w[j].image_url

\* frame 2 was uploaded before frame 1 and both kept their own artifact
C26_Witness ==
    /\ Len(fo_uploads) = 2
    /\ fo_uploads[1].frame = 2
    /\ fo_uploads[2].frame = 1
    /\ \A i \in 1..2 : fo_w[i].pc = "done" /\ fo_w[i].image_url.kind = "blob"

\* C30 as stated: the process constructs at most one BlobStorageService,
\* also when several workers call get_blob_storage while none exists, and
\* every caller receives the same instance.
C30_ConstructedOnce ==
    /\ Cardinality(fo_instances) <= 1
    /\ \A i \in 1..Len(fo_w), j \in 1..Len(fo_w) :
          (~IsNone(fo_w[i].blob_storage_service) /\ ~IsNone(fo_w[j].blob_storage_service)) =>
              fo_w[i].blob_storage_service = fo_w[j].blob_storage_service

====
